---- MODULE Spec2Model ----
(***************************************************************************)
(* Debt-Management-System: the ledger engine (debtService, paymentService, *)
(* the Debt / Customer / Payment models, the aging job) and the            *)
(* idempotency middleware in front of POST /payments.                      *)
(*                                                                         *)
(* Money is counted in minor units (0.01 of the currency), so the 0.01     *)
(* tolerance of the Payment model is 1.  Time is counted in half days, so  *)
(* that the floor of calculateAgingBucket is not the identity.             *)
(***************************************************************************)
EXTENDS Integers, Sequences, FiniteSets, TLC

\* ------------------------------------------------------------------ bounds
MaxAmount == 2          \* largest amount a caller submits
MaxDebts == 2           \* ObjectIds generated for debts
MaxPayments == 2        \* ObjectIds generated for payments
MaxCustomers == 3       \* ObjectIds generated for customers
MaxApplied == 2         \* entries of appliedToDebts
MaxMutations == 3       \* successful ledger mutations (the sum of the versions)
CreditLimit == 3        \* creditLimit of the seeded customers
MaxTicks == 1           \* half days the clock advances
MaxSubmits == 3         \* submissions of one idempotency key
NumCalls == 2           \* calls under way at once
MaxAge == 92            \* days on the clock when a debt is classified
MaxChangesets == 1      \* changesets of one pushChanges call
MaxEntries == 3         \* audit entries a client pages through
MaxTime == 3            \* timestamps of those entries
MaxLimit == 2           \* page size of getChanges

\* ------------------------------------------------------- program constants
DayLength == 2          \* 1000 * 60 * 60 * 24 ms, in half days
Tolerance == 1          \* 0.01, in minor units

Companies == {1, 2}
CustomerIds == {1, 2}
NoKey == "none"
Keys == {"k1"}
None == [status |-> 0, body |-> [error |-> "absent"]]
CASHIER == "cashier"
VIEWER == "viewer"
Roles == {CASHIER, VIEWER}

Amounts == -1..MaxAmount
\* Due thirty days and a half before time 0: floor((now - dueAt) / day) is 30 at
\* time 0 and 31 half a day later.
DueBefore == -(30 * DayLength + 1)
DueTimes == {DueBefore}
AgingDueTimes == {0, 1, 3}

\* What a client pushes: the entity kinds ("User" is none of the three the
\* service knows), the versions it holds and the fields it overwrites.
SyncEntities == {"Customer", "Debt", "Payment", "User"}
ClientVersions == {0, 2}
SyncData == {[version |-> 0], [customerId |-> 2], [amount |-> MaxAmount + 2]}

\* config/constants.js
OPEN == "open"
PARTIAL == "partial"
PAID == "paid"
CANCELLED == "cancelled"
CURRENT == "current"
DAYS_0_30 == "0-30"
DAYS_31_60 == "31-60"
DAYS_61_90 == "61-90"
DAYS_90_PLUS == "90+"
DEBT_CREATE == "debt_create"
DEBT_DELETE == "debt_delete"
PAYMENT_CREATE == "payment_create"
CUSTOMER_CREATE == "customer_create"
CUSTOMER_UPDATE == "customer_update"
CUSTOMER_DELETE == "customer_delete"
USER_LOGIN == "user_login"

VARIABLES
    customers,      \* Customer collection: id -> document
    debts,          \* Debt collection: _id -> document
    payments,       \* Payment collection: _id -> document
    auditLog,       \* AuditLog collection: set of entries
    now,            \* the clock, in half days
    objectIds,      \* the ObjectIds generated so far, per collection
    result,         \* what a call that takes one step has returned to its
                    \* caller (Idle: nothing)
    cache,          \* Redis: idempotency key -> stored response (None: no entry)
    pending,        \* the setex calls issued and not yet settled
    replies,        \* per key: submissions made, the first response, the response
                    \* of the submission that was executed with success (history)
    procs           \* the processes: the calls under way, one statement at a
                    \* time

vars == <<customers, debts, payments, auditLog, now, objectIds, result, cache, pending,
          replies, procs>>
ledger == <<customers, debts, payments>>
http == <<cache, pending, replies>>

\* ------------------------------------------------------------ decimalMath
fromDecimal128(value) == IF value = 0 THEN 0 ELSE value
toDecimal128(value) == IF value = 0 THEN 0 ELSE value
add(a, b) == fromDecimal128(a) + fromDecimal128(b)
\* the operands of minus taken in the wrong order
subtract_reversed(a, b) == fromDecimal128(b) - fromDecimal128(a)
subtract(a, b) == fromDecimal128(a) - fromDecimal128(b)
isGreaterThan(a, b) == fromDecimal128(a) > fromDecimal128(b)
\* equals written as a === b: two Decimal objects are never the same object
equals_identity(a, b) == FALSE
equals(a, b) == fromDecimal128(a) = fromDecimal128(b)
\* decimal.js: isPositive is "sign > 0", and the sign of zero is +
isPositive(value) == fromDecimal128(value) >= 0

\* --------------------------------------------------------------- Debt model
\* updateStatus without its isZero branch: a debt paid in full stays partial
updateStatus_neverPaid(debt) ==
    IF debt.status = CANCELLED THEN debt
    ELSE IF debt.outstandingAmount < debt.totalAmount THEN [debt EXCEPT !.status = PARTIAL]
    ELSE [debt EXCEPT !.status = OPEN]
updateStatus(debt) ==
    LET outstanding == fromDecimal128(debt.outstandingAmount)
        total == fromDecimal128(debt.totalAmount)
    IN  IF debt.status = CANCELLED THEN debt
        ELSE IF outstanding = 0 THEN [debt EXCEPT !.status = PAID]
        ELSE IF outstanding < total THEN [debt EXCEPT !.status = PARTIAL]
        ELSE [debt EXCEPT !.status = OPEN]

\* the bounds of the buckets tested with < instead of <=
calculateAgingBucket_exclusive(debt, clock) ==
    IF debt.status = PAID \/ debt.status = CANCELLED THEN CURRENT
    ELSE LET daysOverdue == (clock - debt.dueAt) \div DayLength
         IN  IF daysOverdue < 0 THEN CURRENT
             ELSE IF daysOverdue < 30 THEN DAYS_0_30
             ELSE IF daysOverdue < 60 THEN DAYS_31_60
             ELSE IF daysOverdue < 90 THEN DAYS_61_90
             ELSE DAYS_90_PLUS
calculateAgingBucket(debt, clock) ==
    IF debt.status = PAID \/ debt.status = CANCELLED THEN CURRENT
    ELSE LET daysOverdue == (clock - debt.dueAt) \div DayLength
         IN  IF daysOverdue < 0 THEN CURRENT
             ELSE IF daysOverdue <= 30 THEN DAYS_0_30
             ELSE IF daysOverdue <= 60 THEN DAYS_31_60
             ELSE IF daysOverdue <= 90 THEN DAYS_61_90
             ELSE DAYS_90_PLUS

\* ----------------------------------------------------------- Customer model
\* the limit test written with lessThan: a debt that reaches the limit is refused
canAcceptDebt_below(customer, amount) ==
    customer.debtBalance + amount < customer.creditLimit
canAcceptDebt(customer, amount) ==
    LET currentDebt == fromDecimal128(customer.debtBalance)
        newAmount == fromDecimal128(amount)
        limit == fromDecimal128(customer.creditLimit)
    IN  currentDebt + newAmount <= limit

incrementVersion(customer) == [customer EXCEPT !.version = @ + 1]

\* ------------------------------------------------------------------ queries
\* Customer.findOne({ _id, companyId })
CustomerFound(cs, customerId, companyId) ==
    /\ customerId \in DOMAIN cs
    /\ cs[customerId].companyId = companyId

\* Debt.findOne({ _id, companyId }) and Debt.findOne({ _id, companyId, customerId })
DebtStored(ds, debtId) == debtId \in DOMAIN ds
DebtFoundInCompany(ds, debtId, companyId) ==
    DebtStored(ds, debtId) /\ ds[debtId].companyId = companyId
DebtFound(ds, debtId, companyId, customerId) ==
    DebtFoundInCompany(ds, debtId, companyId) /\ ds[debtId].customerId = customerId

\* ------------------------------------------------------------- transactions
\* session.commitTransaction() makes the writes made under the session the
\* stored state; session.abortTransaction() in the catch block drops them.
commitTransaction(stored, staged) == staged
\* the catch block without its abort: the writes of the session stay
abortTransaction_skipped(stored, staged) == staged
abortTransaction(stored, staged) == stored

\* AuditLog.logAction: the entry is saved without the session; a failure of
\* the save is caught and only printed.
logAction(log, entry, auditOk) == IF auditOk THEN log \cup {entry} ELSE log

\* The sum of the amounts of a list of applied entries, as decimal values.
RECURSIVE SumApplied(_)
SumApplied(appliedToDebts) ==
    IF appliedToDebts = <<>> THEN 0
    ELSE Head(appliedToDebts).amount + SumApplied(Tail(appliedToDebts))

Abs(x) == IF x < 0 THEN -x ELSE x

\* The hook works on parseFloat of the Decimal128 values, in binary floating
\* point.  A double is kept here as the minor units it was parsed from (cents)
\* and its distance from that decimal value (off), counted in hundredths of
\* 2^-59, the spacing of the doubles around 0.01.  The 32-bit integers of the
\* checker carry this for values below 100000.00.
RECURSIVE Pow2Mod(_, _)
Pow2Mod(s, m) == IF s = 0 THEN 1 % m ELSE (2 * Pow2Mod(s - 1, m)) % m

\* The binade of n/100, n >= 1: 2^(Binade(n) - 7) <= n/100 < 2^(Binade(n) - 6),
\* so that the doubles around n/100 are 100 * 2^Binade(n) units apart.
RECURSIVE Binade(_)
Binade(n) ==
    IF n >= 200 THEN Binade(n \div 2) + 1
    ELSE IF n >= 100 THEN 7
    ELSE Binade(2 * n) - 1

\* What is left of n/100 below the 53rd bit, in hundredths of the spacing.
Remainder(n) == ((n % 100) * Pow2Mod(59 - Binade(n), 100)) % 100

\* The last bit of the significand of the double nearest to n/100.
MantissaOdd(n) ==
    LET low == (((n % 200) * Pow2Mod(59 - Binade(n), 200)) % 200) \div 100
        up == IF Remainder(n) >= 50 THEN 1 ELSE 0
    IN  (low + up) % 2 = 1

\* parseFloat(value.toString()): the double nearest to the decimal value.
parseFloat(n) ==
    LET a == Abs(n)
        off == (IF Remainder(a) < 50 THEN -Remainder(a) ELSE 100 - Remainder(a))
                   * 2 ^ Binade(a)
    IN  [cents |-> n, off |-> IF n = 0 THEN 0 ELSE IF n < 0 THEN -off ELSE off]

\* x + y of two doubles: the exact sum rounded to the nearest double of its
\* binade, to the one with the even significand when it lies half way.  Just
\* below a power of two the doubles are half as far apart.
RECURSIVE plus(_, _)
plus(x, y) ==
    LET cents == x.cents + y.cents
        exact == x.off + y.off
    IN  IF cents = 0 THEN [cents |-> 0, off |-> exact]
        ELSE IF cents < 0
        THEN LET mirrored == plus([cents |-> -x.cents, off |-> -x.off],
                                  [cents |-> -y.cents, off |-> -y.off])
             IN  [cents |-> -mirrored.cents, off |-> -mirrored.off]
        ELSE LET below == /\ exact < 0
                          /\ IF Binade(cents) >= 7
                             THEN cents = 100 * 2 ^ (Binade(cents) - 7)
                             ELSE cents * 2 ^ (7 - Binade(cents)) = 100
                 spacing == IF below THEN 50 * 2 ^ Binade(cents)
                            ELSE 100 * 2 ^ Binade(cents)
                 nearest == parseFloat(cents).off
                 odd == ~below /\ MantissaOdd(cents)
                 d == exact - nearest
                 q == d \div spacing
                 m == d - q * spacing
                 k == IF 2 * m < spacing THEN q
                      ELSE IF 2 * m > spacing THEN q + 1
                      ELSE IF odd = (q % 2 = 0) THEN q + 1 ELSE q
             IN  [cents |-> cents, off |-> nearest + k * spacing]

\* appliedToDebts.reduce((sum, applied) => sum + amount, 0)
RECURSIVE totalApplied(_)
totalApplied(appliedToDebts) ==
    IF appliedToDebts = <<>> THEN parseFloat(0)
    ELSE plus(totalApplied(SubSeq(appliedToDebts, 1, Len(appliedToDebts) - 1)),
              parseFloat(appliedToDebts[Len(appliedToDebts)].amount))

\* pre('validate') of Payment: with entries in appliedToDebts, the document is
\* refused when Math.abs(total - paymentAmount) > 0.01, all of it in doubles.
\* The rounding of the operands decides when the decimal values are 0.01
\* apart (the subtraction is then exact): 0.03 against 0.02 passes, 0.04
\* against 0.03 does not.  Equal values pass and values further apart do not,
\* whatever the rounding.
paymentPreValidate(payment) ==
    Len(payment.appliedToDebts) > 0 =>
        LET gap == SumApplied(payment.appliedToDebts) + payment.addedToCreditBalance
                       - payment.amount
            total == plus(totalApplied(payment.appliedToDebts),
                          parseFloat(payment.addedToCreditBalance))
            paymentAmount == parseFloat(payment.amount)
            diffAbove ==
                IF Abs(gap) # Tolerance THEN Abs(gap) > Tolerance
                ELSE (IF gap > 0 THEN total.off - paymentAmount.off
                      ELSE paymentAmount.off - total.off) > parseFloat(Tolerance).off
        IN  ~diffAbove

\* the unique sparse index on Payment.idempotencyKey
KeyTaken(ps, key) ==
    key # NoKey /\ \E i \in DOMAIN ps : ps[i].idempotencyKey = key

\* ------------------------------------------------------- the calls under way
\* procs[p] is a call: op, the statement it has reached (pc), its request, and
\* the state of its session.  A transaction reads the snapshot taken at its
\* first read (snap), overlaid with its own writes (own); its writes are held
\* back until commitTransaction.  created is the _id of the document the call
\* has constructed, document the one it has loaded without a session, err the
\* error it throws ("none": it returns), audit what became of its audit write,
\* response and replayed what the route has sent.
NothingWritten == [debts |-> <<>>, customers |-> <<>>, payments |-> <<>>]

Stored == [customers |-> customers, debts |-> debts, payments |-> payments]

\* No call: the caller of slot p has made none, or has its answer.
NoCall ==
    [op |-> "none", pc |-> "idle", req |-> <<>>, snap |-> <<>>, own |-> NothingWritten,
     i |-> 1, totalApplied |-> 0, created |-> 0, document |-> <<>>, err |-> "none",
     committed |-> FALSE, audit |-> "none", response |-> None, replayed |-> FALSE,
     readAt |-> 0, todo |-> {}, nModified |-> 0]

NewCall(op, pc, req) == [NoCall EXCEPT !.op = op, !.pc = pc, !.req = req, !.snap = Stored]

\* The collection with the documents of `written` put in or replaced.
Apply(stored, written) ==
    [j \in DOMAIN stored \cup DOMAIN written |->
        IF j \in DOMAIN written THEN written[j] ELSE stored[j]]

\* new Customer(...), new Debt(...), new Payment(...): the document gets a
\* fresh ObjectId as its _id, the next of its collection here.  An _id is
\* never given twice, whatever becomes of the document.
NewId(kind) == objectIds[kind] + 1

Generated(kind) == [objectIds EXCEPT ![kind] = NewId(kind)]

\* Every ObjectId generated so far is the _id of a stored document.
AllStored ==
    objectIds = [customers |-> Cardinality(DOMAIN customers),
                 debts |-> Cardinality(DOMAIN debts),
                 payments |-> Cardinality(DOMAIN payments)]

\* The _ids a caller can name: those of the stored documents, and one that no
\* document has.
NoId == 0
Known(kind) == DOMAIN Stored[kind] \cup {NoId}

\* The documents as the transaction of p sees them.
DebtsSeen(p) ==
    [j \in DOMAIN procs[p].snap.debts |->
        IF j \in DOMAIN procs[p].own.debts THEN procs[p].own.debts[j]
        ELSE procs[p].snap.debts[j]]

CustomersSeen(p) ==
    [j \in DOMAIN procs[p].snap.customers |->
        IF j \in DOMAIN procs[p].own.customers THEN procs[p].own.customers[j]
        ELSE procs[p].snap.customers[j]]

\* the writes made without the session: nothing is ever refused
writeConflict_none(p, kind, id) == FALSE
\* A write under the session is refused with WriteConflict when another
\* transaction holds an uncommitted write to the document, or when the document
\* was changed by a write made after the snapshot of p.
writeConflict(p, kind, id) ==
    \/ \E q \in DOMAIN procs \ {p} : id \in DOMAIN procs[q].own[kind]
    \/ Stored[kind][id] # procs[p].snap[kind][id]

Goes(p, pc) == procs' = [procs EXCEPT ![p].pc = pc]
Throws(p, err) == procs' = [procs EXCEPT ![p].pc = "abort", ![p].err = err]

\* Where the service function hands over: to its caller, or to the controller
\* of the route.
Returned(p) == IF procs[p].op = "postPayment" THEN "respond" ELSE "done"

Pays(p) == procs[p].op \in {"createPayment", "postPayment"}

\* ------------------------------------------------ paymentService.createPayment
\* startTransaction and the amount validation
TxnBegin ==
    \E p \in DOMAIN procs :
        /\ Pays(p) /\ procs[p].pc = "begin"
        /\ IF ~isPositive(fromDecimal128(procs[p].req.amount))
           THEN Throws(p, "InvalidAmount")
           ELSE Goes(p, "findCustomer")
        /\ UNCHANGED <<customers, debts, payments, auditLog, now, objectIds, result, http>>

\* Customer.findOne({ _id, companyId }).session(session)
TxnFindCustomer ==
    \E p \in DOMAIN procs :
        /\ Pays(p) /\ procs[p].pc = "findCustomer"
        /\ IF ~CustomerFound(customers, procs[p].req.customerId, procs[p].req.companyId)
           THEN procs' = [procs EXCEPT ![p].pc = "abort", ![p].snap = Stored,
                                       ![p].err = "CustomerNotFound"]
           ELSE procs' = [procs EXCEPT
                            ![p].snap = Stored,
                            ![p].pc = IF procs[p].req.appliedToDebts = <<>>
                                      THEN "saveCustomer" ELSE "findDebt"]
        /\ UNCHANGED <<customers, debts, payments, auditLog, now, objectIds, result, http>>

\* the loop reading the stored debt at every entry instead of the debt as the
\* session has it: the earlier entries of the list are not counted
DebtsRead_stale(p) == procs[p].snap.debts
\* Debt.findOne(...).session(session): the debt as the session has it
DebtsRead(p) == DebtsSeen(p)

\* the head of the loop body: the amount test, Debt.findOne, the outstanding test
TxnFindDebt ==
    \E p \in DOMAIN procs :
        /\ Pays(p) /\ procs[p].pc = "findDebt"
        /\ LET application == procs[p].req.appliedToDebts[procs[p].i]
               applyAmount == fromDecimal128(application.amount)
           IN  IF ~isPositive(applyAmount) THEN Throws(p, "InvalidAppliedAmount")
               ELSE IF ~DebtFound(DebtsRead(p), application.debtId,
                                  procs[p].req.companyId, procs[p].req.customerId)
                   THEN Throws(p, "DebtNotFound")
               ELSE IF isGreaterThan(applyAmount,
                                     DebtsRead(p)[application.debtId].outstandingAmount)
                   THEN Throws(p, "ExceedsOutstanding")
               ELSE Goes(p, "saveDebt")
        /\ UNCHANGED <<customers, debts, payments, auditLog, now, objectIds, result, http>>

\* outstanding -= amount, updateStatus, debt.save({ session }), totalApplied += amount
TxnSaveDebt ==
    \E p \in DOMAIN procs :
        /\ Pays(p) /\ procs[p].pc = "saveDebt"
        /\ LET application == procs[p].req.appliedToDebts[procs[p].i]
               applyAmount == fromDecimal128(application.amount)
               debt == DebtsRead(p)[application.debtId]
               saved == updateStatus(
                            [debt EXCEPT !.outstandingAmount =
                                toDecimal128(subtract(debt.outstandingAmount, applyAmount))])
           IN  IF writeConflict(p, "debts", application.debtId)
               THEN Throws(p, "WriteConflict")
               ELSE procs' = [procs EXCEPT
                                ![p].own.debts =
                                    Apply(@, [j \in {application.debtId} |-> saved]),
                                ![p].totalApplied = add(@, applyAmount),
                                ![p].i = @ + 1,
                                ![p].pc = IF procs[p].i = Len(procs[p].req.appliedToDebts)
                                          THEN "saveCustomer" ELSE "findDebt"]
        /\ UNCHANGED <<customers, debts, payments, auditLog, now, objectIds, result, http>>

\* the total test, the new balances, incrementVersion, customer.save({ session })
TxnSaveCustomer ==
    \E p \in DOMAIN procs :
        /\ Pays(p) /\ procs[p].pc = "saveCustomer"
        /\ LET paymentAmount == fromDecimal128(procs[p].req.amount)
               customer == procs[p].snap.customers[procs[p].req.customerId]
               addedToCreditBalance == subtract(paymentAmount, procs[p].totalApplied)
               saved == incrementVersion(
                            [customer EXCEPT
                                !.debtBalance = toDecimal128(
                                    subtract(customer.debtBalance, procs[p].totalApplied)),
                                !.creditBalance = toDecimal128(
                                    add(customer.creditBalance, addedToCreditBalance))])
           IN  IF isGreaterThan(procs[p].totalApplied, paymentAmount)
                   THEN Throws(p, "TotalExceedsAmount")
               ELSE IF writeConflict(p, "customers", procs[p].req.customerId)
                   THEN Throws(p, "WriteConflict")
               ELSE procs' = [procs EXCEPT
                                ![p].own.customers =
                                    [j \in {procs[p].req.customerId} |-> saved],
                                ![p].pc = "savePayment"]
        /\ UNCHANGED <<customers, debts, payments, auditLog, now, objectIds, result, http>>

\* new Payment({...})
NewPayment(p) ==
    LET paymentAmount == fromDecimal128(procs[p].req.amount)
    IN  [companyId |-> procs[p].req.companyId,
         customerId |-> procs[p].req.customerId,
         amount |-> toDecimal128(paymentAmount),
         appliedToDebts |-> procs[p].req.appliedToDebts,
         addedToCreditBalance |->
             toDecimal128(subtract(paymentAmount, procs[p].totalApplied)),
         idempotencyKey |-> procs[p].req.idempotencyKey]

\* payment.save({ session }): the validate hook and the unique index on
\* idempotencyKey.  A key that is in the snapshot is a duplicate; one committed
\* after the snapshot is refused as a duplicate or as a write conflict; one
\* inserted and not yet committed by another transaction is a write conflict.
TxnSavePayment ==
    \E p \in DOMAIN procs :
        /\ Pays(p) /\ procs[p].pc = "savePayment"
        /\ LET payment == NewPayment(p)
           IN  IF ~paymentPreValidate(payment) THEN Throws(p, "PaymentInvalid")
               ELSE IF KeyTaken(procs[p].snap.payments, payment.idempotencyKey)
                   THEN Throws(p, "DuplicateKey")
               ELSE IF KeyTaken(payments, payment.idempotencyKey)
                   THEN Throws(p, "DuplicateKey") \/ Throws(p, "WriteConflict")
               ELSE IF \E q \in DOMAIN procs \ {p} :
                           KeyTaken(procs[q].own.payments, payment.idempotencyKey)
                   THEN Throws(p, "WriteConflict")
               ELSE procs' = [procs EXCEPT
                                ![p].own.payments = [j \in {NewId("payments")} |-> payment],
                                ![p].created = NewId("payments"),
                                ![p].pc = "logAction"]
        /\ objectIds' = Generated("payments")
        /\ UNCHANGED <<customers, debts, payments, auditLog, now, result, http>>

\* AuditLog.logAction, outside the session
TxnLogAction ==
    \E p \in DOMAIN procs :
        /\ Pays(p) /\ procs[p].pc = "logAction"
        /\ auditLog' = logAction(auditLog,
                                 [action |-> PAYMENT_CREATE, entity |-> "Payment",
                                  entityId |-> procs[p].created], TRUE)
        /\ procs' = [procs EXCEPT ![p].pc = "commit", ![p].audit = "saved"]
        /\ UNCHANGED <<customers, debts, payments, now, objectIds, result, http>>

\* session.commitTransaction()
TxnCommit ==
    \E p \in DOMAIN procs :
        /\ Pays(p) /\ procs[p].pc = "commit"
        /\ debts' = commitTransaction(debts, Apply(debts, procs[p].own.debts))
        /\ customers' = commitTransaction(customers,
                                          Apply(customers, procs[p].own.customers))
        /\ payments' = commitTransaction(payments,
                                         Apply(payments, procs[p].own.payments))
        /\ procs' = [procs EXCEPT ![p].own = NothingWritten, ![p].committed = TRUE,
                                  ![p].pc = "populateCustomer"]
        /\ UNCHANGED <<auditLog, now, objectIds, result, http>>

\* payment.populate('customer', ...)
TxnPopulateCustomer ==
    \E p \in DOMAIN procs :
        /\ Pays(p) /\ procs[p].pc = "populateCustomer"
        /\ Goes(p, "populate")
        /\ UNCHANGED <<customers, debts, payments, auditLog, now, objectIds, result, http>>

\* payment.populate('appliedToDebts.debtId', ...) and the return; in
\* createDebt, debt.populate('customer', ...) and the return
TxnPopulate ==
    \E p \in DOMAIN procs :
        /\ procs[p].pc = "populate"
        /\ Goes(p, Returned(p))
        /\ UNCHANGED <<customers, debts, payments, auditLog, now, objectIds, result, http>>

\* the catch block: session.abortTransaction() and the rethrow
TxnAbort ==
    \E p \in DOMAIN procs :
        /\ procs[p].pc = "abort"
        /\ debts' = abortTransaction(debts, Apply(debts, procs[p].own.debts))
        /\ customers' = abortTransaction(customers,
                                         Apply(customers, procs[p].own.customers))
        /\ payments' = abortTransaction(payments, Apply(payments, procs[p].own.payments))
        /\ procs' = [procs EXCEPT ![p].own = NothingWritten, ![p].pc = Returned(p)]
        /\ UNCHANGED <<auditLog, now, objectIds, result, http>>

\* ------------------------------------------------------ debtService.createDebt
\* startTransaction and the required-fields test
DebtTxnBegin ==
    \E p \in DOMAIN procs :
        /\ procs[p].op = "createDebt" /\ procs[p].pc = "begin"
        /\ IF procs[p].req.totalAmount = 0 \/ procs[p].req.items = 0
           THEN Throws(p, "MissingFields")
           ELSE Goes(p, "findCustomer")
        /\ UNCHANGED <<customers, debts, payments, auditLog, now, objectIds, result, http>>

\* Customer.findOne({ _id: customerId, companyId }).session(session) and
\* customer.canAcceptDebt(debtAmount)
DebtTxnFindCustomer ==
    \E p \in DOMAIN procs :
        /\ procs[p].op = "createDebt" /\ procs[p].pc = "findCustomer"
        /\ LET req == procs[p].req
           IN  IF ~CustomerFound(customers, req.customerId, req.companyId)
               THEN procs' = [procs EXCEPT ![p].pc = "abort", ![p].snap = Stored,
                                           ![p].err = "CustomerNotFound"]
               ELSE IF ~canAcceptDebt(customers[req.customerId],
                                      fromDecimal128(req.totalAmount))
               THEN procs' = [procs EXCEPT ![p].pc = "abort", ![p].snap = Stored,
                                           ![p].err = "CreditLimitExceeded"]
               ELSE procs' = [procs EXCEPT ![p].snap = Stored, ![p].pc = "saveDebt"]
        /\ UNCHANGED <<customers, debts, payments, auditLog, now, objectIds, result, http>>

\* new Debt, calculateAgingBucket, debt.save({ session }): an insert
DebtTxnSaveDebt ==
    \E p \in DOMAIN procs :
        /\ procs[p].op = "createDebt" /\ procs[p].pc = "saveDebt"
        /\ LET req == procs[p].req
               debtAmount == fromDecimal128(req.totalAmount)
               created == [companyId |-> req.companyId, customerId |-> req.customerId,
                           totalAmount |-> toDecimal128(debtAmount),
                           outstandingAmount |-> toDecimal128(debtAmount),
                           status |-> OPEN, agingBucket |-> CURRENT, dueAt |-> req.dueAt]
               debt == [created EXCEPT !.agingBucket = calculateAgingBucket(created, now)]
           IN  procs' = [procs EXCEPT ![p].own.debts = [j \in {NewId("debts")} |-> debt],
                                      ![p].created = NewId("debts"),
                                      ![p].pc = "saveCustomer"]
        /\ objectIds' = Generated("debts")
        /\ UNCHANGED <<customers, debts, payments, auditLog, now, result, http>>

\* the new debtBalance, incrementVersion, customer.save({ session })
DebtTxnSaveCustomer ==
    \E p \in DOMAIN procs :
        /\ procs[p].op = "createDebt" /\ procs[p].pc = "saveCustomer"
        /\ LET req == procs[p].req
               customer == procs[p].snap.customers[req.customerId]
               newDebtBalance == add(customer.debtBalance, fromDecimal128(req.totalAmount))
               saved == incrementVersion(
                            [customer EXCEPT !.debtBalance = toDecimal128(newDebtBalance)])
           IN  IF writeConflict(p, "customers", req.customerId)
               THEN Throws(p, "WriteConflict")
               ELSE procs' = [procs EXCEPT
                                ![p].own.customers = [j \in {req.customerId} |-> saved],
                                ![p].pc = "logAction"]
        /\ UNCHANGED <<customers, debts, payments, auditLog, now, objectIds, result, http>>

\* AuditLog.logAction, outside the session
DebtTxnLogAction ==
    \E p \in DOMAIN procs :
        /\ procs[p].op = "createDebt" /\ procs[p].pc = "logAction"
        /\ auditLog' = logAction(auditLog,
                                 [action |-> DEBT_CREATE, entity |-> "Debt",
                                  entityId |-> procs[p].created], TRUE)
        /\ procs' = [procs EXCEPT ![p].pc = "commit", ![p].audit = "saved"]
        /\ UNCHANGED <<customers, debts, payments, now, objectIds, result, http>>

\* session.commitTransaction()
DebtTxnCommit ==
    \E p \in DOMAIN procs :
        /\ procs[p].op = "createDebt" /\ procs[p].pc = "commit"
        /\ debts' = commitTransaction(debts, Apply(debts, procs[p].own.debts))
        /\ customers' = commitTransaction(customers,
                                          Apply(customers, procs[p].own.customers))
        /\ procs' = [procs EXCEPT ![p].own = NothingWritten, ![p].committed = TRUE,
                                  ![p].pc = "populate"]
        /\ UNCHANGED <<payments, auditLog, now, objectIds, result, http>>

\* ------------------------------------------------------ debtService.cancelDebt
\* req.customerId of a cancellation is the customer of the debt, known once the
\* debt is found.
\* startTransaction, Debt.findOne({ _id: debtId, companyId }).session(session)
\* and the test that nothing was paid
CancelTxnFindDebt ==
    \E p \in DOMAIN procs :
        /\ procs[p].op = "cancelDebt" /\ procs[p].pc = "begin"
        /\ LET req == procs[p].req
           IN  IF ~DebtFoundInCompany(debts, req.debtId, req.companyId)
               THEN procs' = [procs EXCEPT ![p].pc = "abort", ![p].snap = Stored,
                                           ![p].err = "DebtNotFound"]
               ELSE IF ~equals(fromDecimal128(debts[req.debtId].outstandingAmount),
                               fromDecimal128(debts[req.debtId].totalAmount))
               THEN procs' = [procs EXCEPT ![p].pc = "abort", ![p].snap = Stored,
                                           ![p].err = "DebtHasPayments"]
               ELSE procs' = [procs EXCEPT
                                ![p].snap = Stored,
                                ![p].req.customerId = debts[req.debtId].customerId,
                                ![p].pc = "saveDebt"]
        /\ UNCHANGED <<customers, debts, payments, auditLog, now, objectIds, result, http>>

\* debt.status = CANCELLED, debt.save({ session })
CancelTxnSaveDebt ==
    \E p \in DOMAIN procs :
        /\ procs[p].op = "cancelDebt" /\ procs[p].pc = "saveDebt"
        /\ LET debtId == procs[p].req.debtId
               cancelled == [DebtsSeen(p)[debtId] EXCEPT !.status = CANCELLED]
           IN  IF writeConflict(p, "debts", debtId)
               THEN Throws(p, "WriteConflict")
               ELSE procs' = [procs EXCEPT
                                ![p].own.debts = [j \in {debtId} |-> cancelled],
                                ![p].pc = "findCustomer"]
        /\ UNCHANGED <<customers, debts, payments, auditLog, now, objectIds, result, http>>

\* Customer.findById(debt.customerId).session(session)
CancelTxnFindCustomer ==
    \E p \in DOMAIN procs :
        /\ procs[p].op = "cancelDebt" /\ procs[p].pc = "findCustomer"
        /\ Goes(p, "saveCustomer")
        /\ UNCHANGED <<customers, debts, payments, auditLog, now, objectIds, result, http>>

\* the new debtBalance, incrementVersion, customer.save({ session })
CancelTxnSaveCustomer ==
    \E p \in DOMAIN procs :
        /\ procs[p].op = "cancelDebt" /\ procs[p].pc = "saveCustomer"
        /\ LET customer == CustomersSeen(p)[procs[p].req.customerId]
               total == fromDecimal128(DebtsSeen(p)[procs[p].req.debtId].totalAmount)
               newDebtBalance == subtract(customer.debtBalance, total)
               saved == incrementVersion(
                            [customer EXCEPT !.debtBalance = toDecimal128(newDebtBalance)])
           IN  IF writeConflict(p, "customers", procs[p].req.customerId)
               THEN Throws(p, "WriteConflict")
               ELSE procs' = [procs EXCEPT
                                ![p].own.customers =
                                    [j \in {procs[p].req.customerId} |-> saved],
                                ![p].pc = "logAction"]
        /\ UNCHANGED <<customers, debts, payments, auditLog, now, objectIds, result, http>>

\* AuditLog.logAction, outside the session
CancelTxnLogAction ==
    \E p \in DOMAIN procs :
        /\ procs[p].op = "cancelDebt" /\ procs[p].pc = "logAction"
        /\ auditLog' = logAction(auditLog,
                                 [action |-> DEBT_DELETE, entity |-> "Debt",
                                  entityId |-> procs[p].req.debtId], TRUE)
        /\ procs' = [procs EXCEPT ![p].pc = "commit", ![p].audit = "saved"]
        /\ UNCHANGED <<customers, debts, payments, now, objectIds, result, http>>

\* session.commitTransaction(), and the return
CancelTxnCommit ==
    \E p \in DOMAIN procs :
        /\ procs[p].op = "cancelDebt" /\ procs[p].pc = "commit"
        /\ debts' = commitTransaction(debts, Apply(debts, procs[p].own.debts))
        /\ customers' = commitTransaction(customers,
                                          Apply(customers, procs[p].own.customers))
        /\ procs' = [procs EXCEPT ![p].own = NothingWritten, ![p].committed = TRUE,
                                  ![p].pc = "done"]
        /\ UNCHANGED <<payments, auditLog, now, objectIds, result, http>>

\* ------------------------------------------------- faults of the environment
\* The step of p issues a storage operation under its session: the validation
\* that precedes the operation in the statement has passed.
IssuesOp(p) ==
    \/ procs[p].op = "cancelDebt"
         /\ procs[p].pc \in {"begin", "saveDebt", "findCustomer", "saveCustomer"}
    \/ procs[p].op = "createDebt"
         /\ procs[p].pc \in {"findCustomer", "saveDebt", "saveCustomer"}
    \/ /\ Pays(p)
       /\ \/ procs[p].pc \in {"findCustomer", "saveDebt"}
          \/ /\ procs[p].pc = "findDebt"
             /\ isPositive(fromDecimal128(
                    procs[p].req.appliedToDebts[procs[p].i].amount))
          \/ /\ procs[p].pc = "saveCustomer"
             /\ ~isGreaterThan(procs[p].totalApplied, fromDecimal128(procs[p].req.amount))
          \/ /\ procs[p].pc = "savePayment"
             /\ paymentPreValidate(NewPayment(p))

\* The storage operation fails: it throws, and the catch block takes over.
StorageFault ==
    \E p \in DOMAIN procs :
        /\ IssuesOp(p)
        /\ Throws(p, "StorageError")
        /\ objectIds' = IF Pays(p) /\ procs[p].pc = "savePayment"
                             THEN Generated("payments")
                         ELSE IF procs[p].op = "createDebt" /\ procs[p].pc = "saveDebt"
                             THEN Generated("debts")
                         ELSE objectIds
        /\ UNCHANGED <<customers, debts, payments, auditLog, now, result, http>>

\* The save of the audit entry fails: logAction catches the error, logs it and
\* returns null; the call goes on.
AuditFault ==
    \E p \in DOMAIN procs :
        /\ procs[p].pc = "logAction"
        /\ auditLog' = logAction(auditLog, <<>>, FALSE)
        /\ procs' = [procs EXCEPT ![p].pc = "commit", ![p].audit = "failed"]
        /\ UNCHANGED <<customers, debts, payments, now, objectIds, result, http>>

\* commitTransaction fails: nothing of the session is stored.
CommitFault ==
    \E p \in DOMAIN procs :
        /\ procs[p].pc = "commit"
        /\ Throws(p, "CommitError")
        /\ UNCHANGED <<customers, debts, payments, auditLog, now, objectIds, result, http>>

\* populate fails after the commit: the catch block rethrows.
PopulateFault ==
    \E p \in DOMAIN procs :
        /\ procs[p].pc \in {"populateCustomer", "populate"}
        /\ procs' = [procs EXCEPT ![p].err = "PostCommitError", ![p].pc = Returned(p)]
        /\ UNCHANGED <<customers, debts, payments, auditLog, now, objectIds, result, http>>

\* ------------------------------------------------------------ the callers
\* The caps of the model: ids handed out and versions reached.
RECURSIVE SumOver(_, _)
SumOver(f, S) ==
    IF S = {} THEN 0
    ELSE LET x == CHOOSE y \in S : TRUE IN f[x] + SumOver(f, S \ {x})

Mutations == SumOver([c \in DOMAIN customers |-> customers[c].version], DOMAIN customers)

\* The requests the callers make.
DebtData ==
    [companyId : Companies, customerId : DOMAIN customers, totalAmount : Amounts,
     dueAt : DueTimes, items : 0..1]

Entries == [debtId : Known("debts"), amount : Amounts]

\* appliedToDebts: up to MaxApplied entries.
AppliedLists == UNION {[1..n -> Entries] : n \in 0..MaxApplied}

PaymentData ==
    [companyId : Companies, customerId : CustomerIds, amount : Amounts,
     appliedToDebts : AppliedLists, idempotencyKey : {NoKey} \cup Keys]

\* A caller whose slot is free makes a call: the service function is entered.
CreateDebt ==
    \E p \in DOMAIN procs :
        /\ procs[p].pc = "idle"
        /\ objectIds.debts < MaxDebts
        /\ Mutations < MaxMutations
        /\ \E debtData \in DebtData :
              procs' = [procs EXCEPT ![p] = NewCall("createDebt", "begin", debtData)]
        /\ UNCHANGED <<customers, debts, payments, auditLog, now, objectIds, result, http>>

CancelDebt ==
    \E p \in DOMAIN procs :
        /\ procs[p].pc = "idle"
        /\ Mutations < MaxMutations
        /\ \E companyId \in Companies, debtId \in Known("debts") :
              procs' = [procs EXCEPT ![p] =
                          NewCall("cancelDebt", "begin",
                                  [companyId |-> companyId, debtId |-> debtId,
                                   customerId |-> 0])]
        /\ UNCHANGED <<customers, debts, payments, auditLog, now, objectIds, result, http>>

CreatePayment ==
    \E p \in DOMAIN procs :
        /\ procs[p].pc = "idle"
        /\ objectIds.payments < MaxPayments
        /\ Mutations < MaxMutations
        /\ \E paymentData \in PaymentData :
              procs' = [procs EXCEPT ![p] =
                          NewCall("createPayment", "begin", paymentData)]
        /\ UNCHANGED <<customers, debts, payments, auditLog, now, objectIds, result, http>>

\* The caller has the answer of its call: its slot is free again.
CallEnds ==
    \E p \in DOMAIN procs :
        /\ procs[p].pc = "done"
        /\ procs' = [procs EXCEPT ![p] = NoCall]
        /\ UNCHANGED <<customers, debts, payments, auditLog, now, objectIds, result, http>>

\* ---------------------------------------------- agingUpdateJob on the ledger
\* agingUpdateJob.processAgingUpdate, as the worker calls it; companyId 0:
\* job.data names no company.  The worker runs up to five jobs at once, beside
\* the request handlers.
AgingRun ==
    \E p \in DOMAIN procs :
        /\ procs[p].pc = "idle"
        /\ \E companyId \in {0} \cup Companies :
              procs' = [procs EXCEPT ![p] =
                          NewCall("agingUpdate", "find", [companyId |-> companyId])]
        /\ UNCHANGED <<customers, debts, payments, auditLog, now, objectIds, result, http>>

\* an updateOne of bulkOps for every debt that is open or partial, whatever
\* its stored bucket
bulkOps_blanket(ds, companyId, clock) ==
    LET found == {j \in DOMAIN ds :
                     /\ ds[j].status \in {OPEN, PARTIAL}
                     /\ (companyId # 0 => ds[j].companyId = companyId)}
    IN  [j \in found |-> calculateAgingBucket(ds[j], clock)]
\* this.find(query) and the loop over the debts found: bulkOps holds an
\* updateOne for every debt whose stored bucket is not the fresh one.
bulkOps(ds, companyId, clock) ==
    LET found == {j \in DOMAIN ds :
                     /\ ds[j].status \in {OPEN, PARTIAL}
                     /\ (companyId # 0 => ds[j].companyId = companyId)}
    IN  [j \in {k \in found : ds[k].agingBucket # calculateAgingBucket(ds[k], clock)} |->
            calculateAgingBucket(ds[j], clock)]

\* updateOne: { filter: { _id }, update: { $set: { agingBucket } } }
updateOne(ds, id, agingBucket) == [ds EXCEPT ![id].agingBucket = agingBucket]

\* await this.find(query), the loop, and with no updateOne in bulkOps the
\* return of { modifiedCount: 0 }.  procs[p].document is bulkOps, todo the
\* updateOnes not yet applied, readAt the time the buckets were computed at.
AgingFind ==
    \E p \in DOMAIN procs :
        /\ procs[p].op = "agingUpdate"
        /\ procs[p].pc = "find"
        /\ LET ops == bulkOps(debts, procs[p].req.companyId, now)
           IN  procs' = [procs EXCEPT
                           ![p].snap = Stored,
                           ![p].readAt = now,
                           ![p].document = ops,
                           ![p].todo = DOMAIN ops,
                           ![p].pc = IF ops = <<>> THEN "done" ELSE "bulkWrite",
                           ![p].response = IF ops = <<>>
                                           THEN [success |-> TRUE, modifiedCount |-> 0]
                                           ELSE @]
        /\ UNCHANGED <<customers, debts, payments, auditLog, now, objectIds, result, http>>

\* this.bulkWrite(bulkOps), without a session: the updateOnes are applied one
\* document at a time, each to the document as it is stored by then; find gave
\* no order, so that they are taken in any.  An updateOne waits for the
\* transaction that holds its document.  nModified counts the documents an
\* updateOne has changed; after the last one the result is returned.
AgingBulkWrite ==
    \E p \in DOMAIN procs :
        /\ procs[p].op = "agingUpdate"
        /\ procs[p].pc = "bulkWrite"
        /\ \E id \in procs[p].todo :
            /\ \A q \in DOMAIN procs : id \notin DOMAIN procs[q].own.debts
            /\ LET written == updateOne(debts, id, procs[p].document[id])
                   nModified == procs[p].nModified
                                    + (IF written[id] # debts[id] THEN 1 ELSE 0)
                   last == procs[p].todo = {id}
               IN  /\ debts' = written
                   /\ procs' = [procs EXCEPT
                                   ![p].todo = @ \ {id},
                                   ![p].nModified = nModified,
                                   ![p].pc = IF last THEN "done" ELSE "bulkWrite",
                                   ![p].response =
                                       IF last THEN [success |-> TRUE,
                                                     modifiedCount |-> nModified]
                                       ELSE @]
        /\ UNCHANGED <<customers, payments, auditLog, now, objectIds, result, http>>

\* find or bulkWrite rejects: the bulkWrite is ordered, what it has written
\* stays; processAgingUpdate logs the error and throws it on.
AgingFault ==
    \E p \in DOMAIN procs :
        /\ procs[p].op = "agingUpdate"
        /\ procs[p].pc \in {"find", "bulkWrite"}
        /\ procs' = [procs EXCEPT ![p].pc = "done", ![p].err = "StorageError"]
        /\ UNCHANGED <<customers, debts, payments, auditLog, now, objectIds, result, http>>

\* Half a day passes.
Tick ==
    /\ now < MaxTicks
    /\ now' = now + 1
    /\ UNCHANGED <<customers, debts, payments, auditLog, objectIds, result, http, procs>>

\* No call is under way and no response on its way: the caller may make its
\* next call.
Idle == [op |-> "idle", req |-> <<>>, err |-> "none", audit |-> "none"]

\* debt.calculateAgingBucket(): the bucket is returned, nothing is assigned
Classify ==
    /\ result = Idle
    /\ \E debtId \in DOMAIN debts :
        result' = [op |-> "calculateAgingBucket", req |-> [debtId |-> debtId],
                   err |-> "none", audit |-> "none",
                   bucket |-> calculateAgingBucket(debts[debtId], now)]
    /\ UNCHANGED <<customers, debts, payments, auditLog, now, objectIds, http, procs>>

\* -------------------------------------------------- syncService.pushChanges
\* pushChanges uses no session: between the findOne of a changeset and the
\* save of its document other calls go on.  procs[p].i is the changeset the
\* loop is at, document the document findOne returned, response the results
\* so far.
Kind(entity) ==
    CASE entity = "Customer" -> "customers"
      [] entity = "Debt" -> "debts"
      [] OTHER -> "payments"

\* Object.assign(document, data): the paths of the schema among the keys of
\* data are overwritten; another key becomes a property of the object, which
\* save() does not persist.
Assign(document, data) ==
    [f \in DOMAIN document |-> IF f \in DOMAIN data THEN data[f] ELSE document[f]]

\* document.save() runs the validation of the model: of the three, Payment
\* has the hook that can refuse a value of the fields a client pushes here.
SaveAccepted(entity, document) ==
    entity = "Payment" => paymentPreValidate(document)

\* document.version after Object.assign and incrementVersion: the path of a
\* Customer; on a Debt or a Payment, which have no such path, the property
\* data.version has set, if any.
newVersion(saved, data) ==
    IF "version" \in DOMAIN saved THEN saved.version
    ELSE IF "version" \in DOMAIN data THEN data.version
    ELSE "undefined"

\* What a client pushes: a changeset names a record it knows, or none.
Changesets ==
    UNION {[entity : {entity}, entityId : Known(Kind(entity)), version : ClientVersions,
            data : SyncData] : entity \in SyncEntities}

\* A caller whose slot is free makes a call.
PushChanges ==
    \E p \in DOMAIN procs :
        /\ procs[p].pc = "idle"
        /\ \E companyId \in Companies, n \in 0..MaxChangesets :
            \E changesets \in [1..n -> Changesets] :
                procs' = [procs EXCEPT ![p] =
                            NewCall("pushChanges", "begin",
                                    [companyId |-> companyId, changesets |-> changesets])]
        /\ UNCHANGED <<customers, debts, payments, auditLog, now, objectIds, result, http>>

\* the test of the array, and results = { applied: [], conflicts: [] }
PushBegin ==
    \E p \in DOMAIN procs :
        /\ procs[p].op = "pushChanges" /\ procs[p].pc = "begin"
        /\ IF procs[p].req.changesets = <<>>
           THEN procs' = [procs EXCEPT ![p].pc = "done", ![p].err = "ChangesetsRequired"]
           ELSE procs' = [procs EXCEPT ![p].pc = "find",
                                       ![p].response = [applied |-> <<>>,
                                                        conflicts |-> <<>>]]
        /\ UNCHANGED <<customers, debts, payments, auditLog, now, objectIds, result, http>>

\* The loop goes on with the next changeset, or the results are returned.
Continue(p, field, entry) ==
    [procs EXCEPT ![p].response[field] = Append(@, entry),
                  ![p].document = <<>>,
                  ![p].i = @ + 1,
                  ![p].pc = IF procs[p].i = Len(procs[p].req.changesets)
                            THEN "done" ELSE "find"]

\* the switch on entity (its throw is caught in the loop) and
\* Model.findOne({ _id: entityId, companyId })
PushFind ==
    \E p \in DOMAIN procs :
        /\ procs[p].op = "pushChanges" /\ procs[p].pc = "find"
        /\ LET changeset == procs[p].req.changesets[procs[p].i]
               entity == changeset.entity
               entityId == changeset.entityId
               Model == Stored[Kind(entity)]
           IN  IF entity \notin {"Customer", "Debt", "Payment"}
               THEN procs' = Continue(p, "conflicts",
                                      [entityId |-> entityId, entity |-> entity,
                                       reason |-> "Unknown entity type", error |-> TRUE])
               ELSE IF ~(/\ entityId \in DOMAIN Model
                         /\ Model[entityId].companyId = procs[p].req.companyId)
               THEN procs' = Continue(p, "conflicts",
                                      [entityId |-> entityId, entity |-> entity,
                                       reason |-> "Document not found on server",
                                       serverVersion |-> "null",
                                       clientVersion |-> changeset.version])
               ELSE procs' = [procs EXCEPT ![p].pc = "check",
                                           ![p].document = <<Model[entityId]>>]
        /\ UNCHANGED <<customers, debts, payments, auditLog, now, objectIds, result, http>>

\* document.version !== undefined && document.version !== version
PushCheck ==
    \E p \in DOMAIN procs :
        /\ procs[p].op = "pushChanges" /\ procs[p].pc = "check"
        /\ LET changeset == procs[p].req.changesets[procs[p].i]
               document == procs[p].document[1]
           IN  IF "version" \in DOMAIN document /\ document.version # changeset.version
               THEN procs' = Continue(p, "conflicts",
                                      [entityId |-> changeset.entityId,
                                       entity |-> changeset.entity,
                                       reason |-> "Version mismatch",
                                       serverVersion |-> document.version,
                                       clientVersion |-> changeset.version,
                                       serverData |-> document])
               ELSE Goes(p, "save")
        /\ UNCHANGED <<customers, debts, payments, auditLog, now, objectIds, result, http>>

\* Object.assign(document, data), incrementVersion, document.save(): the
\* modified paths are written to the stored document, whatever it is by now;
\* the write waits for a transaction that holds the document.  A document
\* the validation refuses is caught in the loop and reported.
PushSave ==
    \E p \in DOMAIN procs :
        /\ procs[p].op = "pushChanges" /\ procs[p].pc = "save"
        /\ LET changeset == procs[p].req.changesets[procs[p].i]
               entity == changeset.entity
               entityId == changeset.entityId
               document == procs[p].document[1]
               assigned == Assign(document, changeset.data)
               saved == IF entity = "Customer" THEN incrementVersion(assigned)
                        ELSE assigned
               stored == Stored[Kind(entity)][entityId]
               written == [f \in DOMAIN stored |->
                              IF saved[f] # document[f] THEN saved[f] ELSE stored[f]]
           IN  /\ \A q \in DOMAIN procs : entityId \notin DOMAIN procs[q].own[Kind(entity)]
               /\ IF ~SaveAccepted(entity, saved)
                  THEN /\ procs' = Continue(p, "conflicts",
                                            [entityId |-> entityId, entity |-> entity,
                                             reason |-> "Validation failed",
                                             error |-> TRUE])
                       /\ UNCHANGED <<customers, debts, payments>>
                  ELSE /\ procs' = Continue(p, "applied",
                                            [entityId |-> entityId, entity |-> entity,
                                             newVersion |->
                                                 newVersion(saved, changeset.data)])
                       /\ customers' = IF entity = "Customer"
                                       THEN [customers EXCEPT ![entityId] = written]
                                       ELSE customers
                       /\ debts' = IF entity = "Debt"
                                   THEN [debts EXCEPT ![entityId] = written]
                                   ELSE debts
                       /\ payments' = IF entity = "Payment"
                                      THEN [payments EXCEPT ![entityId] = written]
                                      ELSE payments
        /\ UNCHANGED <<auditLog, now, objectIds, result, http>>

\* --------------------------------------------------- syncService.getChanges
\* .sort({ timestamp: 1 }): ascending; the order of the entries of one
\* timestamp is not defined, every order is a result.
sortByTimestamp(entries) ==
    {sorted \in [1..Cardinality(entries) -> entries] :
        /\ \A i, j \in DOMAIN sorted : i # j => sorted[i] # sorted[j]
        /\ \A i, j \in DOMAIN sorted : i < j => sorted[i].timestamp <= sorted[j].timestamp}

Min(a, b) == IF a <= b THEN a ELSE b

hasMore(found, returned, limit) == Len(returned) >= limit

\* AuditLog.find({ companyId, timestamp: { $gt: sinceDate } }).sort().limit()
\* `since` is an instant (0: one before every entry), given as a valid date.
\* The responses the call can give.
getChanges(companyId, since, limit) ==
    LET found == {e \in auditLog : e.companyId = companyId /\ e.timestamp > since}
    IN  {LET changes == SubSeq(sorted, 1, Min(limit, Len(sorted)))
         IN  [since |-> since,
              changes |-> changes,
              hasMore |-> hasMore(found, changes, limit),
              lastTimestamp |-> IF Len(changes) > 0 THEN changes[Len(changes)].timestamp
                                ELSE since] : sorted \in sortByTimestamp(found)}

\* The client of procs[1] asks for the next page with the lastTimestamp of the
\* page before, as long as hasMore was true.
GetChanges ==
    /\ result = Idle
    /\ \E p \in DOMAIN procs :
        /\ procs[p].pc = "paging"
        /\ \E page \in getChanges(procs[p].companyId, procs[p].since, procs[p].limit) :
               /\ procs' = [procs EXCEPT
                              ![p].since = page.lastTimestamp,
                              ![p].received = @ \o page.changes,
                              ![p].pc = IF page.hasMore THEN "paging" ELSE "done"]
               /\ result' = [op |-> "getChanges",
                             req |-> [companyId |-> procs[p].companyId,
                                      since |-> procs[p].since,
                                      limit |-> procs[p].limit],
                             err |-> "none", audit |-> "none", page |-> page]
    /\ UNCHANGED <<customers, debts, payments, auditLog, now, objectIds, http>>

\* The caller takes the response; calls are made one after another.
Return ==
    /\ result # Idle
    /\ result.op # "underway"
    /\ result' = Idle
    /\ UNCHANGED <<customers, debts, payments, auditLog, now, objectIds, http, procs>>

\* ------------------------------------------------------- customerService
\* createCustomer: the name is required, creditLimit is 0 when not given.
CustomerData ==
    {[name |-> ""], [name |-> "n"], [name |-> "n", creditLimit |-> CreditLimit]}

CreateCustomer ==
    \E p \in DOMAIN procs :
        /\ procs[p].pc = "idle"
        /\ objectIds.customers < MaxCustomers
        /\ \E companyId \in Companies, customerData \in CustomerData :
            procs' = [procs EXCEPT ![p] =
                        NewCall("createCustomer", "begin",
                                [companyId |-> companyId, customerData |-> customerData])]
        /\ UNCHANGED <<customers, debts, payments, auditLog, now, objectIds, result, http>>

\* new Customer({...})
NewCustomer(companyId, customerData) ==
    [companyId |-> companyId,
     creditLimit |-> toDecimal128(IF "creditLimit" \in DOMAIN customerData
                                  THEN customerData.creditLimit ELSE 0),
     debtBalance |-> toDecimal128(0), creditBalance |-> toDecimal128(0),
     version |-> 0, isActive |-> TRUE]

\* the test of the name, new Customer and customer.save(): an insert, without
\* a session
CustomerInsert ==
    \E p \in DOMAIN procs :
        /\ procs[p].op = "createCustomer" /\ procs[p].pc = "begin"
        /\ IF procs[p].req.customerData.name = ""
           THEN /\ procs' = [procs EXCEPT ![p].pc = "done", ![p].err = "NameRequired"]
                /\ UNCHANGED <<customers, objectIds>>
           ELSE /\ customers' =
                       Apply(customers,
                             [j \in {NewId("customers")} |->
                                 NewCustomer(procs[p].req.companyId,
                                             procs[p].req.customerData)])
                /\ objectIds' = Generated("customers")
                /\ procs' = [procs EXCEPT ![p].created = NewId("customers"),
                                          ![p].pc = "logAction"]
        /\ UNCHANGED <<debts, payments, auditLog, now, result, http>>

\* login: the user record is none of the collections kept here; a login that
\* succeeds writes an audit entry.  A user has one password, "right".
Users == {1}
Passwords == {"", "right", "wrong"}

Login ==
    \E p \in DOMAIN procs :
        /\ procs[p].pc = "idle"
        /\ \E user \in Users \cup {NoId}, password \in Passwords :
            procs' = [procs EXCEPT ![p] =
                        NewCall("login", "begin", [user |-> user, password |-> password])]
        /\ UNCHANGED <<customers, debts, payments, auditLog, now, objectIds, result, http>>

\* the test of the arguments, User.findOne, user.comparePassword,
\* generateTokens, user.updateLastLogin
LoginVerify ==
    \E p \in DOMAIN procs :
        /\ procs[p].op = "login" /\ procs[p].pc = "begin"
        /\ IF procs[p].req.password = ""
           THEN procs' = [procs EXCEPT ![p].pc = "done", ![p].err = "CredentialsRequired"]
           ELSE IF procs[p].req.user \notin Users \/ procs[p].req.password # "right"
           THEN procs' = [procs EXCEPT ![p].pc = "done", ![p].err = "Unauthorized"]
           ELSE Goes(p, "logAction")
        /\ UNCHANGED <<customers, debts, payments, auditLog, now, objectIds, result, http>>

\* updateCustomer and deleteCustomer: no session, no incrementVersion.  Of the
\* allowed updates (name, contact, creditLimit, notes) creditLimit is the one
\* the ledger reads, and the one the callers here change.
UpdateCustomer ==
    \E p \in DOMAIN procs :
        /\ procs[p].pc = "idle"
        /\ \E companyId \in Companies, customerId \in Known("customers"),
              updateData \in {[creditLimit |-> 0]} :
            procs' = [procs EXCEPT ![p] =
                        NewCall("updateCustomer", "begin",
                                [companyId |-> companyId, customerId |-> customerId,
                                 updateData |-> updateData])]
        /\ UNCHANGED <<customers, debts, payments, auditLog, now, objectIds, result, http>>

DeleteCustomer ==
    \E p \in DOMAIN procs :
        /\ procs[p].pc = "idle"
        /\ \E companyId \in Companies, customerId \in Known("customers") :
            procs' = [procs EXCEPT ![p] =
                        NewCall("deleteCustomer", "begin",
                                [companyId |-> companyId, customerId |-> customerId])]
        /\ UNCHANGED <<customers, debts, payments, auditLog, now, objectIds, result, http>>

\* Customer.findOne({ _id: customerId, companyId }); the catch block rethrows
CustomerFind ==
    \E p \in DOMAIN procs :
        /\ procs[p].op \in {"updateCustomer", "deleteCustomer"}
        /\ procs[p].pc = "begin"
        /\ IF ~CustomerFound(customers, procs[p].req.customerId, procs[p].req.companyId)
           THEN procs' = [procs EXCEPT ![p].pc = "done", ![p].err = "CustomerNotFound"]
           ELSE procs' = [procs EXCEPT ![p].pc = "save",
                                       ![p].document = <<customers[procs[p].req.customerId]>>]
        /\ UNCHANGED <<customers, debts, payments, auditLog, now, objectIds, result, http>>

\* Object.assign(customer, updates) or customer.isActive = false, then
\* customer.save(): the modified paths are written to the stored document,
\* whatever it is by now; the write waits for a transaction that holds the
\* document.
CustomerSave ==
    \E p \in DOMAIN procs :
        /\ procs[p].op \in {"updateCustomer", "deleteCustomer"}
        /\ procs[p].pc = "save"
        /\ \A q \in DOMAIN procs : procs[p].req.customerId \notin DOMAIN procs[q].own.customers
        /\ LET document == procs[p].document[1]
               updateData == procs[p].req.updateData
               updates == [f \in DOMAIN updateData \cap {"creditLimit"} |->
                              toDecimal128(updateData[f])]
               saved == IF procs[p].op = "updateCustomer" THEN Assign(document, updates)
                        ELSE [document EXCEPT !.isActive = FALSE]
               stored == customers[procs[p].req.customerId]
               written == [f \in DOMAIN stored |->
                              IF saved[f] # document[f] THEN saved[f] ELSE stored[f]]
           IN  /\ customers' = [customers EXCEPT ![procs[p].req.customerId] = written]
               /\ procs' = [procs EXCEPT ![p].pc = "logAction", ![p].document = <<saved>>]
        /\ UNCHANGED <<debts, payments, auditLog, now, objectIds, result, http>>

\* AuditLog.logAction, and the return
CustomerLogAction ==
    \E p \in DOMAIN procs :
        /\ procs[p].op \in {"createCustomer", "updateCustomer", "deleteCustomer", "login"}
        /\ procs[p].pc = "logAction"
        /\ auditLog' = logAction(auditLog,
                                 CASE procs[p].op = "createCustomer" ->
                                          [action |-> CUSTOMER_CREATE, entity |-> "Customer",
                                           entityId |-> procs[p].created]
                                   [] procs[p].op = "updateCustomer" ->
                                          [action |-> CUSTOMER_UPDATE, entity |-> "Customer",
                                           entityId |-> procs[p].req.customerId]
                                   [] procs[p].op = "deleteCustomer" ->
                                          [action |-> CUSTOMER_DELETE, entity |-> "Customer",
                                           entityId |-> procs[p].req.customerId]
                                   [] OTHER ->
                                          [action |-> USER_LOGIN, entity |-> "User",
                                           entityId |-> procs[p].req.user],
                                 TRUE)
        /\ procs' = [procs EXCEPT ![p].pc = "done", ![p].audit = "saved"]
        /\ UNCHANGED <<customers, debts, payments, now, objectIds, result, http>>

\* ---------------------------------------------------- POST /api/v1/payments
\* validate(createPaymentSchema): amount and the amount of every entry are
\* positiveNumber.
createPaymentSchema(body) ==
    /\ body.amount > 0
    /\ \A i \in DOMAIN body.appliedToDebts : body.appliedToDebts[i].amount > 0

\* authorize(ADMIN, ACCOUNTANT, CASHIER)
authorize(role) == role \in {"admin", "accountant", CASHIER}

\* The status errorHandler sends for an error of the service.
statusCode(err) ==
    CASE err \in {"InvalidAmount", "InvalidAppliedAmount", "ExceedsOutstanding",
                  "TotalExceedsAmount"} -> 400
      [] err \in {"CustomerNotFound", "DebtNotFound"} -> 404
      [] err = "DuplicateKey" -> 409
      [] OTHER -> 500

\* the middleware without its look-up: every request goes on to the controller
cachedResponse_skipped(store, key) == None
\* redis.get(redisKey) of the idempotency middleware
cachedResponse(store, key) == store[key]

\* The overridden res.json caches a response only when its status is 2xx.
isSuccessful_any(status) == TRUE

isSuccessful(status) == status >= 200 /\ status < 300

\* The requests.  A request without the header is refused before its body is
\* read, and a viewer's before the controller is reached.
Submissions ==
    {r \in [companyId : Companies, role : Roles, customerId : CustomerIds,
            amount : Amounts,
            appliedToDebts : {<<>>} \cup {<<[debtId |-> 1, amount |-> n]>> : n \in Amounts},
            idempotencyKey : {NoKey} \cup Keys] :
        /\ (r.companyId # 1 \/ r.role = VIEWER) => r.appliedToDebts = <<>>
        /\ r.idempotencyKey = NoKey => (r.appliedToDebts = <<>> /\ r.amount = 1)}

\* One submission arrives.
PostPayment ==
    \E p \in DOMAIN procs :
        /\ procs[p].pc = "idle"
        /\ \E req \in Submissions :
            /\ req.idempotencyKey # NoKey
                   => replies[req.idempotencyKey].count < MaxSubmits
            /\ procs' = [procs EXCEPT ![p] = NewCall("postPayment", "idempotency", req)]
        /\ UNCHANGED <<customers, debts, payments, auditLog, now, objectIds, result, http>>

\* res.json: the response is sent; the overridden res.json hands a 2xx
\* response to redis.setex and does not wait for it.
Send(p, response, override, replayed) ==
    LET key == procs[p].req.idempotencyKey
        cached == override /\ isSuccessful(response.status)
    IN  /\ procs' = [procs EXCEPT ![p].pc = "done", ![p].response = response,
                                  ![p].replayed = replayed]
        /\ pending' = IF cached THEN pending \cup {<<key, response>>} ELSE pending
        /\ replies' = IF key = NoKey THEN replies
                      ELSE [replies EXCEPT ![key] =
                              [count |-> @.count + 1,
                               first |-> IF @.first = None THEN response ELSE @.first,
                               executed |-> IF cached THEN response ELSE @.executed]]
        /\ UNCHANGED <<customers, debts, payments, auditLog, now, objectIds, result, cache>>

\* idempotency (the header, redis.get, the override of res.json), validate,
\* authorize: the request is answered or reaches paymentService.createPayment.
RouteIdempotency ==
    \E p \in DOMAIN procs :
        /\ procs[p].op = "postPayment"
        /\ procs[p].pc = "idempotency"
        /\ LET key == procs[p].req.idempotencyKey
               refused(status, code) == [status |-> status, body |-> [error |-> code]]
           IN  IF key = NoKey
               THEN Send(p, refused(400, "IdempotencyKeyRequired"), FALSE, FALSE)
               ELSE IF cachedResponse(cache, key) # None
               THEN Send(p, cachedResponse(cache, key), FALSE, TRUE)
               ELSE IF ~createPaymentSchema(procs[p].req)
               THEN Send(p, refused(400, "ValidationError"), TRUE, FALSE)
               ELSE IF ~authorize(procs[p].req.role)
               THEN Send(p, refused(403, "Forbidden"), TRUE, FALSE)
               ELSE /\ Goes(p, "begin")
                    /\ UNCHANGED <<customers, debts, payments, auditLog, now, objectIds, result, http>>

\* paymentController.createPayment after the service call: the 201 response
\* with the payment, or next(error) and errorHandler.
RouteRespond ==
    \E p \in DOMAIN procs :
        /\ procs[p].op = "postPayment"
        /\ procs[p].pc = "respond"
        /\ Send(p, IF procs[p].err = "none"
                   THEN [status |-> 201,
                         body |-> [id |-> procs[p].created, payment |-> NewPayment(p)]]
                   ELSE [status |-> statusCode(procs[p].err),
                         body |-> [error |-> procs[p].err]],
                TRUE, FALSE)

\* redis.setex settles: the response is stored, or the call is rejected and the
\* catch only logs it.
CacheSet ==
    \E w \in pending :
        /\ cache' = [cache EXCEPT ![w[1]] = w[2]]
        /\ pending' = pending \ {w}
        /\ UNCHANGED <<customers, debts, payments, auditLog, now, objectIds, result, replies, procs>>

CacheSetFails ==
    \E w \in pending :
        /\ pending' = pending \ {w}
        /\ UNCHANGED <<customers, debts, payments, auditLog, now, objectIds, result, cache, replies,
                       procs>>

\* IDEMPOTENCY_TTL_SECONDS after the setex the entry is gone.
Expire ==
    \E key \in Keys :
        /\ cache[key] # None
        /\ cache' = [cache EXCEPT ![key] = None]
        /\ UNCHANGED <<customers, debts, payments, auditLog, now, objectIds, result, pending, replies,
                       procs>>

\* ------------------------------------------------------------ specifications
\* Nothing has come in over HTTP.
NoRequests ==
    /\ cache = [k \in Keys |-> None]
    /\ pending = {}
    /\ replies = [k \in Keys |-> [count |-> 0, first |-> None, executed |-> None]]

\* Nothing has come in over HTTP and no process exists.
NoTraffic == NoRequests /\ procs = <<>>

\* One caller, who has made no call.
OneCaller == NoRequests /\ result = Idle /\ procs = <<NoCall>>

\* The steps of the service functions and of the aging run.
CreateDebtSteps ==
    \/ DebtTxnBegin \/ DebtTxnFindCustomer \/ DebtTxnSaveDebt \/ DebtTxnSaveCustomer
    \/ DebtTxnLogAction \/ DebtTxnCommit

CancelDebtSteps ==
    \/ CancelTxnFindDebt \/ CancelTxnSaveDebt \/ CancelTxnFindCustomer
    \/ CancelTxnSaveCustomer \/ CancelTxnLogAction \/ CancelTxnCommit

CreatePaymentSteps ==
    \/ TxnBegin \/ TxnFindCustomer \/ TxnFindDebt \/ TxnSaveDebt \/ TxnSaveCustomer
    \/ TxnSavePayment \/ TxnLogAction \/ TxnCommit \/ TxnPopulateCustomer

\* The steps the service functions share: the last populate, the catch block.
SharedSteps == TxnPopulate \/ TxnAbort

CustomerSteps == CustomerFind \/ CustomerSave \/ CustomerLogAction

EntrySteps == CustomerInsert \/ LoginVerify

AgingSteps == AgingFind \/ AgingBulkWrite

Faults == StorageFault \/ AuditFault \/ CommitFault \/ PopulateFault

\* Two customers of company 1 and nothing else.
EmptyLedger ==
    /\ customers = [c \in CustomerIds |->
                      [companyId |-> 1, creditLimit |-> CreditLimit, debtBalance |-> 0,
                       creditBalance |-> 0, version |-> 0, isActive |-> TRUE]]
    /\ debts = <<>>
    /\ payments = <<>>
    /\ auditLog = {}
    /\ now = 0
    /\ AllStored

Init == EmptyLedger /\ OneCaller

\* Customer 1 with two open debts, customer 2 with none, nothing paid: the
\* state after createDebt(totalAmount MaxAmount) and createDebt(totalAmount 1).
TwoDebts ==
    /\ customers = [c \in CustomerIds |->
                      [companyId |-> 1, creditLimit |-> MaxAmount + 1,
                       debtBalance |-> IF c = 1 THEN MaxAmount + 1 ELSE 0,
                       creditBalance |-> 0, version |-> IF c = 1 THEN 2 ELSE 0,
                       isActive |-> TRUE]]
    /\ debts = <<[companyId |-> 1, customerId |-> 1, totalAmount |-> MaxAmount,
                  outstandingAmount |-> MaxAmount, status |-> OPEN,
                  agingBucket |-> DAYS_0_30, dueAt |-> DueBefore],
                 [companyId |-> 1, customerId |-> 1, totalAmount |-> 1,
                  outstandingAmount |-> 1, status |-> OPEN,
                  agingBucket |-> DAYS_0_30, dueAt |-> DueBefore]>>
    /\ payments = <<>>
    /\ auditLog = {[action |-> DEBT_CREATE, entity |-> "Debt", entityId |-> 1],
                   [action |-> DEBT_CREATE, entity |-> "Debt", entityId |-> 2]}
    /\ now = 0
    /\ AllStored

\* One debt of customer 1 in any status, with any stored bucket and a due time
\* at, half a day after or a day and a half after time 0, and the clock anywhere
\* in the first MaxAge days.
InitAging ==
    /\ \E status \in {OPEN, PARTIAL, PAID, CANCELLED},
          agingBucket \in {CURRENT, DAYS_0_30, DAYS_31_60, DAYS_61_90, DAYS_90_PLUS},
          dueAt \in AgingDueTimes :
        LET outstanding == CASE status = PAID -> 0
                             [] status = PARTIAL -> MaxAmount - 1
                             [] OTHER -> MaxAmount
        IN  /\ debts = <<[companyId |-> 1, customerId |-> 1, totalAmount |-> MaxAmount,
                          outstandingAmount |-> outstanding, status |-> status,
                          agingBucket |-> agingBucket, dueAt |-> dueAt]>>
            /\ customers = [c \in CustomerIds |->
                              [companyId |-> 1, creditLimit |-> MaxAmount + 1,
                               debtBalance |-> IF c = 1 /\ status # CANCELLED
                                               THEN outstanding ELSE 0,
                               creditBalance |-> 0, version |-> 0, isActive |-> TRUE]]
    /\ payments = <<>>
    /\ auditLog = {}
    /\ now \in 0..(MaxAge * DayLength + 1)
    /\ AllStored
    /\ result = Idle
    /\ NoTraffic

\* Customer 1 with one debt paid in part by one payment, customer 2 with
\* nothing: the state after createDebt(totalAmount MaxAmount) and
\* createPayment(amount 1, applied to the debt).
OnePayment ==
    /\ customers = [c \in CustomerIds |->
                      [companyId |-> 1, creditLimit |-> CreditLimit,
                       debtBalance |-> IF c = 1 THEN MaxAmount - 1 ELSE 0,
                       creditBalance |-> 0, version |-> IF c = 1 THEN 2 ELSE 0,
                       isActive |-> TRUE]]
    /\ debts = <<[companyId |-> 1, customerId |-> 1, totalAmount |-> MaxAmount,
                  outstandingAmount |-> MaxAmount - 1, status |-> PARTIAL,
                  agingBucket |-> DAYS_0_30, dueAt |-> 0]>>
    /\ payments = <<[companyId |-> 1, customerId |-> 1, amount |-> 1,
                     appliedToDebts |-> <<[debtId |-> 1, amount |-> 1]>>,
                     addedToCreditBalance |-> 0, idempotencyKey |-> NoKey]>>
    /\ auditLog = {[action |-> DEBT_CREATE, entity |-> "Debt", entityId |-> 1],
                   [action |-> PAYMENT_CREATE, entity |-> "Payment", entityId |-> 1]}
    /\ now = 0
    /\ AllStored

Next ==
    \/ CreateDebt \/ CancelDebt \/ CreatePayment \/ CallEnds
    \/ CreateDebtSteps \/ CancelDebtSteps \/ CreatePaymentSteps \/ SharedSteps

Spec == Init /\ [][Next]_vars

\* The debts a request names are known to its caller.
NamesKnown(req) ==
    /\ "debtId" \in DOMAIN req => req.debtId \in Known("debts")
    /\ "appliedToDebts" \in DOMAIN req
          => \A k \in DOMAIN req.appliedToDebts :
                req.appliedToDebts[k].debtId \in Known("debts")

\* One call of one of the three ledger operations, in a faulty environment.
FaultRequests ==
    [companyId : Companies, customerId : CustomerIds, amount : Amounts,
     appliedToDebts : {<<>>, <<[debtId |-> 1, amount |-> 1]>>,
                       <<[debtId |-> 1, amount |-> 1], [debtId |-> 2, amount |-> 1]>>,
                       <<[debtId |-> 1, amount |-> 1], [debtId |-> 1, amount |-> MaxAmount]>>,
                       <<[debtId |-> 2, amount |-> 1], [debtId |-> NoId, amount |-> 1]>>},
     idempotencyKey : {NoKey}]

DebtRequests ==
    [companyId : {1}, customerId : CustomerIds, totalAmount : 1..MaxAmount,
     dueAt : DueTimes, items : {1}]

CancelRequests == [companyId : {1}, debtId : 0..MaxDebts, customerId : {0}]

FaultCalls ==
    {NewCall("createPayment", "begin", r) : r \in FaultRequests}
        \cup {NewCall("createDebt", "begin", r) : r \in DebtRequests}
        \cup {NewCall("cancelDebt", "begin", r) : r \in CancelRequests}

InitFault ==
    /\ TwoDebts
    /\ result = Idle
    /\ NoRequests
    /\ procs \in [1..1 -> FaultCalls]
    /\ \A p \in DOMAIN procs : NamesKnown(procs[p].req)

NextFault ==
    \/ CreateDebtSteps \/ CancelDebtSteps \/ CreatePaymentSteps \/ SharedSteps
    \/ Faults

SpecFault == InitFault /\ [][NextFault]_vars

\* POST /payments, one request at a time, in a faulty environment.
InitHttp == TwoDebts /\ OneCaller

NextHttp ==
    \/ PostPayment \/ RouteIdempotency \/ CreatePaymentSteps \/ SharedSteps
    \/ RouteRespond
    \/ Faults \/ CallEnds
    \/ CacheSet \/ CacheSetFails \/ Expire

SpecHttp == InitHttp /\ [][NextHttp]_vars

\* The calls that run at once: payments (through the service or the route),
\* debts, cancellations, aging runs, and updates and deletions of the
\* customers of company 1.
ConcRequests ==
    [companyId : {1}, customerId : CustomerIds, amount : 1..MaxAmount,
     appliedToDebts : {<<>>} \cup {<<[debtId |-> i, amount |-> n]>> :
                                      i \in {NoId, 1}, n \in 1..MaxAmount},
     idempotencyKey : {NoKey} \cup Keys]

ConcSubmissions ==
    [companyId : {1}, role : {CASHIER}, customerId : {1}, amount : {1},
     appliedToDebts : {<<>>, <<[debtId |-> 1, amount |-> 1]>>,
                       <<[debtId |-> NoId, amount |-> 1]>>},
     idempotencyKey : Keys]

ConcCalls ==
    {NewCall("createPayment", "begin", r) : r \in ConcRequests}
        \cup {NewCall("postPayment", "idempotency", r) : r \in ConcSubmissions}
        \cup {NewCall("createDebt", "begin", r) : r \in DebtRequests}
        \cup {NewCall("cancelDebt", "begin", r) : r \in CancelRequests}
        \cup {NewCall("agingUpdate", "find", [companyId |-> 0])}
        \cup {NewCall("updateCustomer", "begin", r) :
                  r \in [companyId : {1}, customerId : CustomerIds,
                         updateData : {[creditLimit |-> 0]}]}
        \cup {NewCall("deleteCustomer", "begin", r) :
                  r \in [companyId : {1}, customerId : CustomerIds]}
        \cup {NewCall("createCustomer", "begin",
                      [companyId |-> 1, customerData |-> [name |-> "n"]]),
              NewCall("login", "begin", [user |-> 1, password |-> "right"])}

\* NumCalls calls have come in and none has started, on the empty ledger or on
\* the one with two debts.
InitConc ==
    /\ EmptyLedger \/ TwoDebts
    /\ result = Idle
    /\ NoRequests
    /\ procs \in [1..NumCalls -> ConcCalls]
    /\ \A p \in DOMAIN procs : NamesKnown(procs[p].req)

NextConc ==
    \/ CreateDebtSteps \/ CancelDebtSteps \/ CreatePaymentSteps \/ SharedSteps
    \/ EntrySteps \/ CustomerSteps \/ AgingSteps \/ Tick
    \/ RouteIdempotency \/ RouteRespond \/ CacheSet \/ CacheSetFails \/ Expire

SpecConc == InitConc /\ [][NextConc]_vars

\* Aging runs beside each other and beside request handlers.  Company 1 and
\* company 2 have a customer and an open debt each; the bucket stored with the
\* debt of company 2 is the one of time 0 or an older one.
TwoCompanies ==
    /\ customers = [c \in CustomerIds |->
                      [companyId |-> c, creditLimit |-> MaxAmount,
                       debtBalance |-> IF c = 1 THEN MaxAmount ELSE 1,
                       creditBalance |-> 0, version |-> 1, isActive |-> TRUE]]
    /\ \E agingBucket \in {CURRENT, DAYS_0_30} :
          debts = <<[companyId |-> 1, customerId |-> 1, totalAmount |-> MaxAmount,
                     outstandingAmount |-> MaxAmount, status |-> OPEN,
                     agingBucket |-> DAYS_0_30, dueAt |-> DueBefore],
                    [companyId |-> 2, customerId |-> 2, totalAmount |-> 1,
                     outstandingAmount |-> 1, status |-> OPEN,
                     agingBucket |-> agingBucket, dueAt |-> DueBefore]>>
    /\ payments = <<>>
    /\ auditLog = {[action |-> DEBT_CREATE, entity |-> "Debt", entityId |-> 1],
                   [action |-> DEBT_CREATE, entity |-> "Debt", entityId |-> 2]}
    /\ now = 0
    /\ AllStored

\* The handlers at work when the runs start: a payment on the debt of
\* company 1, in part or in full, or its cancellation.
HandlerCalls ==
    {NewCall("createPayment", "begin", r) :
        r \in [companyId : {1}, customerId : {1}, amount : {MaxAmount},
               appliedToDebts : {<<[debtId |-> 1, amount |-> n]>> : n \in {1, MaxAmount}},
               idempotencyKey : {NoKey}]}
        \cup {NewCall("cancelDebt", "begin",
                      [companyId |-> 1, debtId |-> 1, customerId |-> 0])}

InitRuns ==
    /\ TwoCompanies
    /\ result = Idle
    /\ NoRequests
    /\ procs \in [1..NumCalls -> {NoCall} \cup HandlerCalls]

NextRuns ==
    \/ AgingRun \/ AgingSteps \/ AgingFault \/ CallEnds \/ Tick
    \/ CreatePaymentSteps \/ CancelDebtSteps \/ SharedSteps

SpecRuns == InitRuns /\ [][NextRuns]_vars

InitSync == OnePayment /\ OneCaller

PushSteps == PushBegin \/ PushFind \/ PushCheck \/ PushSave

NextSync ==
    \/ PushChanges \/ PushSteps
    \/ UpdateCustomer \/ DeleteCustomer \/ CreateDebt \/ CallEnds
    \/ CustomerSteps \/ CreateDebtSteps \/ SharedSteps

SpecSync == InitSync /\ [][NextSync]_vars

\* customerService, login and createDebt, one call at a time.
NextCustomers ==
    \/ CreateCustomer \/ Login \/ DeleteCustomer \/ CreateDebt \/ CallEnds
    \/ EntrySteps \/ CustomerSteps \/ CreateDebtSteps \/ SharedSteps

SpecCustomers == Init /\ [][NextCustomers]_vars

\* Pushes of one changeset on customer 1, debt 1 or payment 1, at once.
PushRequests ==
    [companyId : {1},
     changesets : {<<c>> : c \in [entity : {"Customer", "Debt", "Payment"}, entityId : {1},
                                  version : ClientVersions, data : SyncData]}]

InitSyncConc ==
    /\ OnePayment
    /\ result = Idle
    /\ NoRequests
    /\ procs \in [1..NumCalls -> {NewCall("pushChanges", "begin", r) : r \in PushRequests}]

NextSyncConc == PushSteps

SpecSyncConc == InitSyncConc /\ [][NextSyncConc]_vars

\* An audit trail of up to MaxEntries entries, written one after another (the
\* timestamps do not decrease, several entries may share one), and a client
\* that starts paging from a timestamp of its own.
InitPull ==
    /\ customers = [c \in CustomerIds |->
                      [companyId |-> 1, creditLimit |-> CreditLimit, debtBalance |-> 0,
                       creditBalance |-> 0, version |-> 0, isActive |-> TRUE]]
    /\ debts = <<>>
    /\ payments = <<>>
    /\ now = 0
    /\ AllStored
    /\ result = Idle
    /\ cache = [k \in Keys |-> None]
    /\ pending = {}
    /\ replies = [k \in Keys |-> [count |-> 0, first |-> None, executed |-> None]]
    /\ \E n \in 0..MaxEntries :
          \E timestamps \in [1..n -> 1..MaxTime], tenants \in [1..n -> Companies] :
              /\ \A i \in 1..n : \A j \in i..n : timestamps[i] <= timestamps[j]
              /\ auditLog = {[action |-> DEBT_CREATE, entity |-> "Debt", entityId |-> i,
                              companyId |-> tenants[i], timestamp |-> timestamps[i]] :
                                 i \in 1..n}
    /\ procs \in [1..1 -> [pc : {"paging"}, companyId : {1}, since0 : 0..(MaxTime - 1),
                           since : 0..(MaxTime - 1), limit : 1..MaxLimit,
                           received : {<<>>}]]
    /\ procs[1].since = procs[1].since0

NextPull == GetChanges \/ Return

SpecPull == InitPull /\ [][NextPull]_vars

NextAging == Classify \/ Return

SpecAging == InitAging /\ [][NextAging]_vars

\* ==================================================================== claims
\* The call of op in slot p has ended: the caller holds its outcome.  A caller
\* makes its calls one after another, so that with one caller procs[p].snap,
\* the ledger the call read, is the ledger before the call.
Ended(p, op) == procs[p].op = op /\ procs[p].pc = "done"

\* A step in which a call that takes one step is made and answered.
Called(op) == result = Idle /\ result'.op = op

\* The errors createPayment throws up to and including the payment insert.
BodyErrors ==
    {"InvalidAmount", "CustomerNotFound", "InvalidAppliedAmount", "DebtNotFound",
     "ExceedsOutstanding", "TotalExceedsAmount", "PaymentInvalid", "DuplicateKey",
     "StorageError"}

\* C1 (as amended): when a step of createPayment from the amount validation
\* through the payment insert fails (invalid amount, customer or debt not found,
\* applied amount above the outstanding one, total applied above the amount,
\* storage error), the debts, the customers and the payments are exactly what
\* they were before the call and the caller gets that error.
C1_AllOrNothing ==
    \A p \in DOMAIN procs :
        (Ended(p, "createPayment") /\ procs[p].err \in BodyErrors)
            => Stored = procs[p].snap

\* a createPayment that had applied its entries before it failed
C1_RolledBack ==
    \E p \in DOMAIN procs :
        /\ Ended(p, "createPayment")
        /\ procs[p].err = "TotalExceedsAmount"
        /\ procs[p].totalApplied > 0

\* C1 (as stated): the same of every step through the audit write, so that a
\* failed audit write also leaves the ledger as it was and reaches the caller.
C1_ThroughAuditWrite ==
    \A p \in DOMAIN procs :
        (Ended(p, "createPayment")
            /\ (procs[p].err \in BodyErrors \/ procs[p].audit = "failed"))
            => (Stored = procs[p].snap /\ procs[p].err # "none")

OutstandingOf(customerId) ==
    SumOver([i \in DOMAIN debts |->
                IF debts[i].customerId = customerId /\ debts[i].status # CANCELLED
                THEN debts[i].outstandingAmount ELSE 0],
            DOMAIN debts)

\* C2: in every state reached by createDebt, cancelDebt and createPayment calls,
\* each customer's debtBalance is the sum of the outstandingAmount of that
\* customer's debts that are not cancelled.
C2_DebtBalance ==
    \A c \in DOMAIN customers : customers[c].debtBalance = OutstandingOf(c)

C3_Range ==
    \A i \in DOMAIN debts :
        0 <= debts[i].outstandingAmount
        /\ debts[i].outstandingAmount <= debts[i].totalAmount

C3_Steady ==
    \A i \in DOMAIN debts :
        /\ i \in DOMAIN debts'
        /\ debts'[i].totalAmount = debts[i].totalAmount
        /\ debts'[i].outstandingAmount <= debts[i].outstandingAmount

\* C3: for every debt, in every state reached by createDebt, cancelDebt,
\* createPayment and aging runs, 0 <= outstandingAmount <= totalAmount; the
\* totalAmount never changes and the outstandingAmount never increases.
C3_Outstanding == []C3_Range /\ [][C3_Steady]_vars

\* C7: every Payment record has amount = sum of its applied amounts +
\* addedToCreditBalance (within 0.01), addedToCreditBalance >= 0 and amount > 0.
C7_PaymentRecord ==
    \A i \in DOMAIN payments :
        /\ Abs(payments[i].amount - (SumApplied(payments[i].appliedToDebts)
                                     + payments[i].addedToCreditBalance)) <= Tolerance
        /\ payments[i].addedToCreditBalance >= 0
        /\ payments[i].amount > 0

\* C8: with one caller, a createDebt call that names a customer of the company
\* and passes the required-fields test fails with "credit limit exceeded", changing neither
\* the customers nor the debts, if debtBalance + totalAmount > creditLimit;
\* otherwise (equality included) it succeeds and the customer's debtBalance is
\* the old one plus totalAmount.
C8_CreditLimit ==
    \A p \in DOMAIN procs :
        (/\ Ended(p, "createDebt")
         /\ procs[p].req.totalAmount # 0
         /\ procs[p].req.items # 0
         /\ CustomerFound(procs[p].snap.customers, procs[p].req.customerId,
                          procs[p].req.companyId))
            => LET customerId == procs[p].req.customerId
                   totalAmount == procs[p].req.totalAmount
                   customer == procs[p].snap.customers[customerId]
               IN  IF customer.debtBalance + totalAmount > customer.creditLimit
                   THEN /\ procs[p].err = "CreditLimitExceeded"
                        /\ customers = procs[p].snap.customers
                        /\ debts = procs[p].snap.debts
                   ELSE /\ procs[p].err = "none"
                        /\ customers[customerId].debtBalance
                               = customer.debtBalance + totalAmount
                        /\ DOMAIN debts = DOMAIN procs[p].snap.debts \cup {procs[p].created}
                        /\ procs[p].created \notin DOMAIN procs[p].snap.debts

\* a createDebt that succeeded by reaching the limit exactly
C8_AtLimit ==
    \E p \in DOMAIN procs :
        /\ Ended(p, "createDebt")
        /\ procs[p].err = "none"
        /\ procs[p].req.totalAmount > 0
        /\ customers[procs[p].req.customerId].debtBalance
               = customers[procs[p].req.customerId].creditLimit

\* C9: with one caller, a cancelDebt call on a debt of the company fails with "debt has payments
\* applied", changing neither the debts nor the customers, if the debt's
\* outstandingAmount is below its totalAmount; if the two are equal it sets the
\* status to cancelled, takes totalAmount off the customer's debtBalance and
\* adds 1 to the customer's version.
C9_CancelGuard ==
    \A p \in DOMAIN procs :
        (/\ Ended(p, "cancelDebt")
         /\ DebtFoundInCompany(procs[p].snap.debts, procs[p].req.debtId,
                               procs[p].req.companyId))
            => LET debtId == procs[p].req.debtId
                   debt == procs[p].snap.debts[debtId]
                   customer == procs[p].snap.customers[debt.customerId]
               IN  IF debt.outstandingAmount = debt.totalAmount
                   THEN /\ procs[p].err = "none"
                        /\ debts[debtId].status = CANCELLED
                        /\ customers[debt.customerId].debtBalance
                               = customer.debtBalance - debt.totalAmount
                        /\ customers[debt.customerId].version = customer.version + 1
                   ELSE /\ debt.outstandingAmount < debt.totalAmount
                        /\ procs[p].err = "DebtHasPayments"
                        /\ debts = procs[p].snap.debts
                        /\ customers = procs[p].snap.customers

\* a cancelDebt refused on a debt that has a payment applied
C9_Refused ==
    \E p \in DOMAIN procs : Ended(p, "cancelDebt") /\ procs[p].err = "DebtHasPayments"

\* C10: once a debt is cancelled, no call changes its status or its
\* outstandingAmount, and no cancelDebt of it changes a customer's debtBalance.
C10_Terminal ==
    [][\A i \in DOMAIN debts :
          debts[i].status = CANCELLED =>
              /\ i \in DOMAIN debts'
              /\ debts'[i].status = CANCELLED
              /\ debts'[i].outstandingAmount = debts[i].outstandingAmount
              /\ \A p \in DOMAIN procs :
                    (procs[p].op = "cancelDebt" /\ procs[p].req.debtId = i)
                        => customers'[debts[i].customerId].debtBalance
                               = customers[debts[i].customerId].debtBalance]_vars

\* The sum of the amounts the entries of a list apply to one debt.
AppliedTo(appliedToDebts, debtId) ==
    SumApplied(SelectSeq(appliedToDebts, LAMBDA e : e.debtId = debtId))

\* C11: with one caller, a createPayment that succeeds with amount A and entries summing to T
\* has T <= A, takes from each debt's outstandingAmount exactly the amounts
\* applied to it, takes T off the customer's debtBalance, adds A - T to the
\* creditBalance and 1 to the version, creates exactly one Payment with
\* addedToCreditBalance = A - T, and leaves every other customer, every debt it
\* does not reference and every earlier payment as they were.
C11_PaymentEffects ==
    \A p \in DOMAIN procs :
        (Ended(p, "createPayment") /\ procs[p].err = "none")
            => LET c == procs[p].req.customerId
                   A == procs[p].req.amount
                   list == procs[p].req.appliedToDebts
                   T == SumApplied(list)
                   before == procs[p].snap
               IN  /\ T <= A
                   /\ DOMAIN debts = DOMAIN before.debts
                   /\ \A i \in DOMAIN debts :
                          /\ debts[i].outstandingAmount
                                 = before.debts[i].outstandingAmount - AppliedTo(list, i)
                          /\ (\A k \in DOMAIN list : list[k].debtId # i)
                                 => debts[i] = before.debts[i]
                   /\ customers[c].debtBalance = before.customers[c].debtBalance - T
                   /\ customers[c].creditBalance
                          = before.customers[c].creditBalance + (A - T)
                   /\ customers[c].version = before.customers[c].version + 1
                   /\ \A d \in DOMAIN customers \ {c} :
                          customers[d] = before.customers[d]
                   /\ DOMAIN payments = DOMAIN before.payments \cup {procs[p].created}
                   /\ procs[p].created \notin DOMAIN before.payments
                   /\ \A i \in DOMAIN before.payments : payments[i] = before.payments[i]
                   /\ payments[procs[p].created].addedToCreditBalance = A - T

\* a split payment: part applied to a debt, the rest added to the credit balance
C11_Split ==
    \E p \in DOMAIN procs :
        /\ Ended(p, "createPayment") /\ procs[p].err = "none"
        /\ SumApplied(procs[p].req.appliedToDebts) > 0
        /\ procs[p].req.amount > SumApplied(procs[p].req.appliedToDebts)
        /\ customers[procs[p].req.customerId].creditBalance > 0

\* C13: in every state reached by createDebt, cancelDebt and createPayment
\* calls, every customer has debtBalance >= 0 and creditBalance >= 0.
C13_NonNegative ==
    \A c \in DOMAIN customers :
        customers[c].debtBalance >= 0 /\ customers[c].creditBalance >= 0

\* What is left of the debt of entry k when the loop reaches it: the
\* outstandingAmount before the call less the earlier entries of the list on
\* the same debt.
LeftAt(ds, list, k) ==
    ds[list[k].debtId].outstandingAmount
        - AppliedTo(SubSeq(list, 1, k - 1), list[k].debtId)

\* C17: with one caller, createPayment takes the entries in input order and does not merge
\* entries on the same debt: with every entry's amount valid and its debt the
\* customer's, the call fails with the Validation error "exceeds outstanding"
\* exactly when some entry's amount is above what the earlier entries have left
\* of its debt, and then no debt, customer or payment is changed.
C17_InputOrder ==
    \A p \in DOMAIN procs :
        (/\ Ended(p, "createPayment")
         /\ procs[p].req.amount >= 0
         /\ CustomerFound(procs[p].snap.customers, procs[p].req.customerId,
                          procs[p].req.companyId)
         /\ \A k \in DOMAIN procs[p].req.appliedToDebts :
               /\ procs[p].req.appliedToDebts[k].amount >= 0
               /\ DebtFound(procs[p].snap.debts, procs[p].req.appliedToDebts[k].debtId,
                            procs[p].req.companyId, procs[p].req.customerId))
            => LET list == procs[p].req.appliedToDebts
               IN  IF \E k \in DOMAIN list :
                          list[k].amount > LeftAt(procs[p].snap.debts, list, k)
                   THEN /\ procs[p].err = "ExceedsOutstanding"
                        /\ statusCode(procs[p].err) = 400
                        /\ Stored = procs[p].snap
                   ELSE procs[p].err # "ExceedsOutstanding"

\* two entries on one debt, each within its outstandingAmount, refused together
C17_TwiceOnOneDebt ==
    \E p \in DOMAIN procs :
        /\ Ended(p, "createPayment") /\ procs[p].err = "ExceedsOutstanding"
        /\ Len(procs[p].req.appliedToDebts) = 2
        /\ LET list == procs[p].req.appliedToDebts
           IN  /\ list[1].debtId = list[2].debtId
               /\ list[1].amount > 0
               /\ list[2].amount <= debts[list[2].debtId].outstandingAmount

C18_Exact ==
    \A i \in DOMAIN debts :
        debts[i].status # CANCELLED =>
            /\ debts[i].outstandingAmount = 0 => debts[i].status = PAID
            /\ (0 < debts[i].outstandingAmount
                /\ debts[i].outstandingAmount < debts[i].totalAmount)
                   => debts[i].status = PARTIAL
            /\ debts[i].outstandingAmount = debts[i].totalAmount
                   => debts[i].status = OPEN

C18_PaidStays ==
    \A i \in DOMAIN debts : debts[i].status = PAID => debts'[i].status = PAID

\* C18: in every state reached by createDebt, cancelDebt and createPayment
\* calls, a debt that is not cancelled is paid when its outstandingAmount is 0,
\* partial when 0 < outstandingAmount < totalAmount and open when
\* outstandingAmount = totalAmount; a debt that is paid stays paid.
C18_Status == []C18_Exact /\ [][C18_PaidStays]_vars

\* a debt paid in full by one payment, and a later createPayment that applied
\* an amount to it: the call was refused and the debt is still paid
C18_PaymentOnPaid ==
    \E p \in DOMAIN procs, i \in DOMAIN debts :
        /\ Ended(p, "createPayment")
        /\ i \in DOMAIN procs[p].snap.debts
        /\ procs[p].snap.debts[i].status = PAID
        /\ debts[i].status = PAID
        /\ \E k \in DOMAIN procs[p].req.appliedToDebts :
              /\ procs[p].req.appliedToDebts[k].debtId = i
              /\ procs[p].req.appliedToDebts[k].amount > 0
        /\ procs[p].req.customerId = debts[i].customerId
        /\ procs[p].req.companyId = debts[i].companyId
        /\ procs[p].err = "ExceedsOutstanding"

\* C21: createDebt refuses every request whose totalAmount is zero or negative
\* or whose items list is empty with a Validation error, creates no debt and
\* leaves every customer (debtBalance and version included) as it was.
C21_AmountValidated ==
    \A p \in DOMAIN procs :
        (/\ Ended(p, "createDebt")
         /\ procs[p].req.totalAmount <= 0 \/ procs[p].req.items = 0)
            => /\ procs[p].err = "MissingFields"
               /\ debts = procs[p].snap.debts
               /\ customers = procs[p].snap.customers

\* The debts an aging run of the scope reads, and those of them it has to write.
Scanned(companyId) ==
    {i \in DOMAIN debts :
        /\ debts[i].status \in {OPEN, PARTIAL}
        /\ companyId # 0 => debts[i].companyId = companyId}
Stale(companyId, clock) ==
    {i \in Scanned(companyId) :
        debts[i].agingBucket # calculateAgingBucket(debts[i], clock)}

\* The process p takes the step.
Steps(p) == procs'[p] # procs[p]

\* the run of p reads: nothing is written, and bulkOps holds an updateOne with
\* the fresh bucket for exactly the open or partial debts of the scope whose
\* stored bucket is another
C16_Reads(p) ==
    (procs[p].op = "agingUpdate" /\ procs[p].pc = "find" /\ procs'[p].err = "none"
        /\ Steps(p))
        => LET c == procs[p].req.companyId
               ops == procs'[p].document
           IN  /\ DOMAIN ops = Stale(c, now)
               /\ DOMAIN ops \subseteq Scanned(c)
               /\ \A i \in DOMAIN ops : ops[i] = calculateAgingBucket(debts[i], now)
               /\ procs'[p].todo = DOMAIN ops
               /\ ledger' = ledger

\* the run of p writes: one debt of bulkOps that it has not yet written gets
\* the bucket computed for it, and nothing else changes
C16_Writes(p) ==
    (procs[p].op = "agingUpdate" /\ procs[p].pc = "bulkWrite" /\ procs'[p].err = "none"
        /\ Steps(p))
        => /\ \E id \in procs[p].todo :
                 /\ procs'[p].todo = procs[p].todo \ {id}
                 /\ debts' = [debts EXCEPT ![id].agingBucket = procs[p].document[id]]
           /\ customers' = customers /\ payments' = payments
           /\ procs'[p].pc = "done" <=> procs'[p].todo = {}

\* The run of p has returned, and the debts are what it read but for the
\* buckets it has written: nothing else has changed them since.
RanLast(p, companyId) ==
    /\ Ended(p, "agingUpdate") /\ procs[p].err = "none"
    /\ procs[p].req.companyId = companyId
    /\ DOMAIN debts = DOMAIN procs[p].snap.debts
    /\ \A i \in DOMAIN debts :
          debts[i] = IF i \in DOMAIN procs[p].document
                     THEN [procs[p].snap.debts[i] EXCEPT
                              !.agingBucket = procs[p].document[i]]
                     ELSE procs[p].snap.debts[i]

\* No debt the runs of the scope read has passed a bound of the buckets
\* between the two times.
SameBuckets(companyId, before, after) ==
    \A i \in Scanned(companyId) :
        calculateAgingBucket(debts[i], before) = calculateAgingBucket(debts[i], after)

SameDay(before, after) == before \div DayLength = after \div DayLength

\* the run of q writes nothing
NoWrites(q) ==
    /\ procs'[q].document = <<>>
    /\ procs'[q].pc = "done"
    /\ procs'[q].response = [success |-> TRUE, modifiedCount |-> 0]
    /\ debts' = debts

\* the run of q reads right after a run of the same scope, no debt having
\* passed a bound of the buckets in between
C16_Second(q) ==
    (procs[q].op = "agingUpdate" /\ procs[q].pc = "find" /\ procs'[q].err = "none"
        /\ Steps(q))
        => \A p \in DOMAIN procs \ {q} :
              (/\ RanLast(p, procs[q].req.companyId)
               /\ SameBuckets(procs[q].req.companyId, procs[p].readAt, now))
                  => NoWrites(q)

\* the same, the two runs reading on one clock day
C16_SecondSameDay(q) ==
    (procs[q].op = "agingUpdate" /\ procs[q].pc = "find" /\ procs'[q].err = "none"
        /\ Steps(q))
        => \A p \in DOMAIN procs \ {q} :
              (/\ RanLast(p, procs[q].req.companyId)
               /\ SameDay(procs[p].readAt, now))
                  => NoWrites(q)

\* C16 (as amended): an aging run, beside other runs and request handlers, reads
\* the open or partial debts of its scope and nothing else, issues a write for
\* exactly those whose stored agingBucket is not the freshly computed one, and
\* each write sets the agingBucket of one of them and changes nothing else; of
\* two runs back-to-back with no change in between the second writes nothing,
\* provided no debt has passed a bound of the buckets between the two reads.
C16_AgingRun ==
    [][\A p \in DOMAIN procs : C16_Reads(p) /\ C16_Writes(p) /\ C16_Second(p)]_vars

\* a run that wrote the debt of its company, then a second run of the same
\* scope with nothing changed in between, which wrote nothing
C16_SecondRunIdle ==
    \E p, q \in DOMAIN procs :
        /\ p # q
        /\ RanLast(p, 1) /\ procs[p].nModified = 1
        /\ Ended(q, "agingUpdate") /\ procs[q].req.companyId = 1
        /\ procs[q].document = <<>>
        /\ procs[q].snap.debts = debts
        /\ procs[q].response = [success |-> TRUE, modifiedCount |-> 0]

\* C16 (as stated): the same, the second of two runs back-to-back writing
\* nothing whenever the two run on the same clock day.
C16_SameClockDay ==
    [][\A p \in DOMAIN procs :
          C16_Reads(p) /\ C16_Writes(p) /\ C16_SecondSameDay(p)]_vars

\* C29: in every reachable state every debt that is paid or cancelled has the
\* stored agingBucket current; in particular no paid or cancelled debt keeps
\* another bucket after an aging recomputation run.
C29_Settled ==
    \A i \in DOMAIN debts :
        debts[i].status \in {PAID, CANCELLED} => debts[i].agingBucket = CURRENT

C29_AfterRun ==
    \A p \in DOMAIN procs :
        (procs[p].op = "agingUpdate" /\ procs[p].pc = "bulkWrite" /\ procs'[p].pc = "done")
            => C29_Settled'

C29_SettledIsCurrent == []C29_Settled /\ [][C29_AfterRun]_vars

\* A submission bearing the key is under way in slot p.
Submitted(p, key) ==
    /\ procs[p].op = "postPayment"
    /\ procs[p].req.idempotencyKey = key
    /\ procs[p].pc # "done"

\* C4 (as amended): once a submission bearing key K has been executed with
\* success, no later submission bearing K changes the ledger; while the stored
\* response is in the cache a later submission receives exactly that response,
\* and when it is not (the setex failed or has not settled, or the entry
\* expired) the later submission is executed again and ends with an error.
C4_Replay ==
    [][\A key \in Keys : \A p \in DOMAIN procs :
          (Submitted(p, key) /\ replies[key].executed # None)
              => /\ ledger' = ledger
                 /\ (procs[p].pc = "idempotency" /\ procs'[p].pc # "idempotency")
                       => IF cache[key] # None
                          THEN /\ procs'[p].pc = "done"
                               /\ procs'[p].response = replies[key].executed
                          ELSE /\ ~procs'[p].replayed
                               /\ procs'[p].pc \in {"begin", "done"}
                 /\ (procs'[p].pc = "done" /\ ~procs'[p].replayed)
                       => procs'[p].response.status >= 400]_vars

\* a second submission that was answered from the cache
C4_Replayed ==
    \E p \in DOMAIN procs :
        /\ Ended(p, "postPayment")
        /\ procs[p].replayed
        /\ replies[procs[p].req.idempotencyKey].count >= 2
        /\ procs[p].response = replies[procs[p].req.idempotencyKey].executed

\* C4 (as stated): a second submission bearing key K receives the response the
\* first one received and changes nothing in the ledger.
C4_SameResponse ==
    [][\A key \in Keys : \A p \in DOMAIN procs :
          (Submitted(p, key) /\ replies[key].first # None)
              => /\ ledger' = ledger
                 /\ procs'[p].pc = "done"
                       => procs'[p].response = replies[key].first]_vars

Is2xx(status) == status \in 200..299

\* A step in which the submission of p is answered.
Answered(p) ==
    procs[p].op = "postPayment" /\ procs[p].pc # "done" /\ procs'[p].pc = "done"

\* C22: the idempotency gate stores a response under a key only when the
\* request succeeded: every stored or about-to-be-stored response is a 2xx;
\* a request that fails leaves the cache and the writes under way as they
\* were; a request bearing a key with nothing cached under it is never a
\* replay (it passes the gate), and what is replayed is a success; and a
\* cache write that fails changes neither the ledger nor any response given.
C22_Stored ==
    /\ \A key \in Keys : cache[key] # None => Is2xx(cache[key].status)
    /\ \A w \in pending : Is2xx(w[2].status)

C22_FailureNotCached ==
    \A p \in DOMAIN procs :
        (Answered(p) /\ ~Is2xx(procs'[p].response.status))
            => (cache' = cache /\ pending' = pending)

C22_ExecutesAgain ==
    \A p \in DOMAIN procs :
        /\ (procs'[p].op = "postPayment" /\ procs'[p].replayed /\ ~procs[p].replayed)
              => /\ procs[p].pc = "idempotency"
                 /\ cache[procs[p].req.idempotencyKey] # None
                 /\ Is2xx(procs'[p].response.status)
        /\ (/\ procs[p].op = "postPayment" /\ procs[p].pc = "idempotency"
            /\ procs'[p] # procs[p]
            /\ procs[p].req.idempotencyKey # NoKey
            /\ cache[procs[p].req.idempotencyKey] = None
            /\ createPaymentSchema(procs[p].req) /\ authorize(procs[p].req.role))
              => procs'[p].pc = "begin"

C22_WriteFailureHarmless ==
    (pending' # pending /\ cache' = cache /\ procs' = procs)
        => (ledger' = ledger /\ replies' = replies)

C22_OnlySuccessCached ==
    /\ []C22_Stored
    /\ [][C22_FailureNotCached /\ C22_ExecutesAgain /\ C22_WriteFailureHarmless]_vars

\* A key whose first request failed and whose later request went through the
\* gate, executed createPayment and succeeded.
C22_FailedThenExecuted ==
    \E p \in DOMAIN procs :
        /\ Ended(p, "postPayment")
        /\ procs[p].req.idempotencyKey # NoKey
        /\ ~procs[p].replayed
        /\ procs[p].committed
        /\ procs[p].response.status = 201
        /\ replies[procs[p].req.idempotencyKey].count >= 2
        /\ ~Is2xx(replies[procs[p].req.idempotencyKey].first.status)
        /\ cache[procs[p].req.idempotencyKey] = None

\* C28: the idempotency gate does not leak responses across callers: a cached
\* response is replayed only to a request of the tenant the payment in it
\* belongs to, made by a caller whose role may create payments.
C28_NoLeak ==
    [][\A p \in DOMAIN procs :
          (Answered(p) /\ procs'[p].replayed)
              => /\ authorize(procs[p].req.role)
                 /\ procs'[p].response.body.payment.companyId
                        = procs[p].req.companyId]_vars

AllDone == \A p \in DOMAIN procs : procs[p].pc = "done"
Committed == {p \in DOMAIN procs : procs[p].committed}
\* The call of p pays debt 1 of customer 1 in full.
FullPay(p) ==
    /\ procs[p].op = "createPayment"
    /\ procs[p].req.customerId = 1
    /\ procs[p].req.amount >= MaxAmount
    /\ procs[p].req.appliedToDebts = <<[debtId |-> 1, amount |-> MaxAmount]>>

\* C5: when every one of the concurrent createPayment calls applies the full
\* outstanding amount of the same debt, then under every interleaving of
\* their steps the debt's outstandingAmount is never below 0, the customer's
\* debtBalance is reduced by that amount at most once, and when all calls have
\* ended exactly one has committed and every other has failed.
C5_ExactlyOneCommits ==
    (DebtStored(debts, 1) /\ \A p \in DOMAIN procs : FullPay(p))
        => /\ debts[1].outstandingAmount >= 0
           /\ customers[1].debtBalance \in {MaxAmount + 1, 1}
           /\ Cardinality(DOMAIN payments) <= 1
           /\ Cardinality(Committed) <= 1
           /\ AllDone => /\ Cardinality(Committed) = 1
                         /\ \A p \in DOMAIN procs \ Committed : procs[p].err # "none"
\* All calls paid the debt in full and have ended; one committed, and one that
\* had read the debt before that commit was refused at its write.
C5_LoserRefused ==
    /\ DebtStored(debts, 1) /\ \A p \in DOMAIN procs : FullPay(p)
    /\ AllDone
    /\ Cardinality(Committed) = 1
    /\ debts[1].outstandingAmount = 0
    /\ \E p \in DOMAIN procs : procs[p].err = "WriteConflict"

\* C6: when two createPayment calls with the same request and the same
\* idempotency key run concurrently, at most one Payment with that key is
\* committed, the balances change at most once, and once both have ended and
\* one has committed, the other has ended with the Conflict error of the
\* duplicate key.
C6_LoserConflict ==
    \A p, q \in DOMAIN procs :
        (/\ p # q
         /\ procs[p].op = "createPayment" /\ procs[q].op = "createPayment"
         /\ procs[p].req = procs[q].req /\ procs[p].req.idempotencyKey # NoKey)
            => /\ ~(procs[p].committed /\ procs[q].committed)
               /\ Cardinality(DOMAIN payments) <= 1
               /\ (AllDone /\ procs[p].committed) => procs[q].err = "DuplicateKey"

\* C24: whenever createPayment, createDebt or cancelDebt returns an error to
\* its caller, the call has left debts, customers and payments as they were.
C24_ErrorMeansUnchanged ==
    \A p \in DOMAIN procs :
        (/\ procs[p].op \in {"createPayment", "createDebt", "cancelDebt"}
         /\ procs[p].pc = "done"
         /\ procs[p].err # "none")
            => Stored = procs[p].snap

\* The entry of a call under way: written by its logAction, its transaction
\* neither committed nor aborted yet.
InProgress(entry) ==
    \E p \in DOMAIN procs :
        /\ procs[p].pc = "commit"
        /\ procs[p].audit = "saved"
        /\ \/ /\ Pays(p)
              /\ entry.action = PAYMENT_CREATE /\ entry.entityId = procs[p].created
           \/ /\ procs[p].op = "createDebt"
              /\ entry.action = DEBT_CREATE /\ entry.entityId = procs[p].created
           \/ /\ procs[p].op = "cancelDebt"
              /\ entry.action = DEBT_DELETE /\ entry.entityId = procs[p].req.debtId

\* C25: every audit entry with action PAYMENT_CREATE, DEBT_CREATE or
\* DEBT_DELETE refers to a committed mutation: the payment or debt it names is
\* stored, and a cancellation entry names a cancelled debt.  The entry of a call
\* whose transaction is still open is not yet held to this.
C25_AuditedIsCommitted ==
    \A entry \in auditLog :
        \/ InProgress(entry)
        \/ /\ entry.action = PAYMENT_CREATE => entry.entityId \in DOMAIN payments
           /\ entry.action = DEBT_CREATE => entry.entityId \in DOMAIN debts
           /\ entry.action = DEBT_DELETE
                 => /\ entry.entityId \in DOMAIN debts
                    /\ debts[entry.entityId].status = CANCELLED

\* C26: under every interleaving of concurrent createDebt calls the committed
\* debtBalance of a customer is the sum of that customer's debts, the debt of
\* every call that committed among them, and it never exceeds creditLimit: of
\* two calls that pass the credit-limit check on the same state and together
\* exceed the limit, at most one commits.
C26_LimitHeld ==
    (\A p \in DOMAIN procs : procs[p].op = "createDebt")
        => /\ \A c \in CustomerIds :
                 /\ customers[c].debtBalance = OutstandingOf(c)
                 /\ customers[c].debtBalance <= customers[c].creditLimit
           /\ \A p \in DOMAIN procs :
                 procs[p].committed
                     => /\ procs[p].created \in DOMAIN debts
                        /\ debts[procs[p].created].customerId = procs[p].req.customerId
                        /\ debts[procs[p].created].outstandingAmount
                               = procs[p].req.totalAmount

\* Two calls for one customer that each passed the check on the same state and
\* together exceed the limit: one committed, the other met a write conflict.
C26_OneRefused ==
    \E p, q \in DOMAIN procs :
        /\ p # q
        /\ procs[p].op = "createDebt" /\ procs[q].op = "createDebt"
        /\ procs[p].req.customerId = procs[q].req.customerId
        /\ procs[p].committed /\ procs[p].pc = "done"
        /\ procs[q].err = "WriteConflict" /\ procs[q].pc = "done"
        /\ procs[q].snap.customers = procs[p].snap.customers
        /\ procs[q].snap.customers[procs[q].req.customerId].debtBalance
              + procs[p].req.totalAmount + procs[q].req.totalAmount
              > customers[procs[q].req.customerId].creditLimit

C19_Bucket ==
    result.op = "calculateAgingBucket" =>
        LET debt == debts[result.req.debtId]
            elapsed == now - debt.dueAt
        IN  result.bucket =
                IF debt.status \in {PAID, CANCELLED} THEN CURRENT
                ELSE IF elapsed < 0 THEN CURRENT
                ELSE IF elapsed < 31 * DayLength THEN DAYS_0_30
                ELSE IF elapsed < 61 * DayLength THEN DAYS_31_60
                ELSE IF elapsed < 91 * DayLength THEN DAYS_61_90
                ELSE DAYS_90_PLUS

\* C19: the aging classification depends on the clock, the due time and the
\* status only: current for a paid or cancelled debt; otherwise, by the whole
\* days elapsed since the due time (rounded down), current before the due
\* time, "0-30" up to the end of day 30, "31-60" up to the end of day 60,
\* "61-90" up to the end of day 90, "90+" after; it writes nothing.
C19_Classification ==
    /\ []C19_Bucket
    /\ [][Called("calculateAgingBucket") => (ledger' = ledger /\ now' = now)]_vars

\* an open debt classified exactly 31 days after its due time
C19_Day31 ==
    /\ result.op = "calculateAgingBucket"
    /\ debts[result.req.debtId].status = OPEN
    /\ now - debts[result.req.debtId].dueAt = 31 * DayLength
    /\ result.bucket = DAYS_31_60

\* C12: Customer.version never decreases, grows by exactly 1 in every step
\* that changes a field of the customer record, and is left alone by an
\* operation that fails.
C12_Failed ==
    \A p \in DOMAIN procs :
        (procs[p].pc = "done" /\ procs[p].err # "none")
            => \A c \in DOMAIN customers :
                  customers[c].version = procs[p].snap.customers[c].version

C12_Step ==
    \A c \in DOMAIN customers :
        /\ customers'[c].version >= customers[c].version
        /\ customers'[c] # customers[c]
              => customers'[c].version = customers[c].version + 1

C12_VersionStep == []C12_Failed /\ [][C12_Step]_vars

\* The changesets of a pushChanges call that address a record of the tenant
\* and the version that record carries, if it carries one.
Addressed(stored, entity, entityId, companyId) ==
    /\ entity \in {"Customer", "Debt", "Payment"}
    /\ entityId \in DOMAIN stored[Kind(entity)]
    /\ stored[Kind(entity)][entityId].companyId = companyId

VersionsEqual(document, version) ==
    "version" \in DOMAIN document /\ document.version = version

\* C14: pushChanges is server-wins: a changeset on a Customer, Debt or Payment
\* of the tenant whose version is not the version of the server record is
\* reported in conflicts with the server's version and the server's record,
\* and the record is left as it was; a changeset is applied only when the
\* versions are equal.
C14_ServerWins ==
    \A p \in DOMAIN procs :
        (Ended(p, "pushChanges") /\ procs[p].err = "none") =>
         \A i \in DOMAIN procs[p].req.changesets :
            LET changeset == procs[p].req.changesets[i]
                entity == changeset.entity
                entityId == changeset.entityId
                response == procs[p].response
            IN  Addressed(procs[p].snap, entity, entityId, procs[p].req.companyId) =>
                  LET before == procs[p].snap[Kind(entity)][entityId]
                      after == Stored[Kind(entity)][entityId]
                      isApplied == \E k \in DOMAIN response.applied :
                                      /\ response.applied[k].entity = entity
                                      /\ response.applied[k].entityId = entityId
                  IN  /\ isApplied => VersionsEqual(before, changeset.version)
                      /\ ~VersionsEqual(before, changeset.version) =>
                            /\ after = before
                            /\ \E k \in DOMAIN response.conflicts :
                                  LET conflict == response.conflicts[k]
                                  IN  /\ conflict.entity = entity
                                      /\ conflict.entityId = entityId
                                      /\ "serverVersion" \in DOMAIN conflict
                                      /\ "serverData" \in DOMAIN conflict
                                      /\ conflict.serverData = before

\* C15: a Payment record is immutable once created: no step changes a field
\* of a payment that exists.
C15_PaymentImmutable ==
    [][\A paymentId \in DOMAIN payments :
          /\ paymentId \in DOMAIN payments'
          /\ payments'[paymentId] = payments[paymentId]]_vars

\* C20: createDebt with the required fields, for a customer that is not in the
\* tenant or is not active, fails with NotFound, creates no debt and changes
\* no customer.
C20_InactiveRefused ==
    \A p \in DOMAIN procs :
        (/\ Ended(p, "createDebt")
         /\ procs[p].req.totalAmount # 0
         /\ procs[p].req.items # 0
         /\ LET customerId == procs[p].req.customerId
            IN  \/ ~CustomerFound(procs[p].snap.customers, customerId,
                                  procs[p].req.companyId)
                \/ ~procs[p].snap.customers[customerId].isActive)
            => /\ procs[p].err = "CustomerNotFound"
               /\ debts = procs[p].snap.debts
               /\ customers = procs[p].snap.customers

\* C27: of two pushes whose changesets target the same record with the same
\* clientVersion, at most one is applied and then the other is reported as a
\* version conflict, whatever the entity and the interleaving.
C27_OneWins ==
    \A p, q \in DOMAIN procs :
        (/\ p # q
         /\ Ended(p, "pushChanges") /\ Ended(q, "pushChanges")
         /\ procs[p].req.changesets[1].entity = procs[q].req.changesets[1].entity
         /\ procs[p].req.changesets[1].entityId = procs[q].req.changesets[1].entityId
         /\ procs[p].req.changesets[1].version = procs[q].req.changesets[1].version
         /\ procs[p].response.applied # <<>>)
            => /\ procs[q].response.applied = <<>>
               /\ \E k \in DOMAIN procs[q].response.conflicts :
                     procs[q].response.conflicts[k].reason = "Version mismatch"

\* C30: paging through getChanges is complete and duplicate-free: the client
\* that has paged until hasMore was false has received every entry of its
\* tenant later than the timestamp it started from, each once, in ascending
\* timestamp order; and on every page hasMore is true exactly when entries
\* beyond the page exist.
C30_Received ==
    \A p \in DOMAIN procs :
        LET client == procs[p]
            due == {e \in auditLog : /\ e.companyId = client.companyId
                                     /\ e.timestamp > client.since0}
        IN  /\ \A i, j \in DOMAIN client.received :
                  /\ i < j => client.received[i].timestamp <= client.received[j].timestamp
                  /\ i # j => client.received[i] # client.received[j]
            /\ client.pc = "done"
                  => {client.received[i] : i \in DOMAIN client.received} = due

C30_HasMore ==
    (result = Idle /\ result'.op = "getChanges")
        => LET page == result'.page
               beyond == {e \in auditLog :
                            /\ e.companyId = result'.req.companyId
                            /\ e.timestamp > result'.req.since
                            /\ \A i \in DOMAIN page.changes : page.changes[i] # e}
           IN  page.hasMore <=> beyond # {}

C30_PagingComplete == []C30_Received /\ [][C30_HasMore]_vars
====
